---- MODULE Spec2Model ----
(***************************************************************************)
(* Terrain codecs of screeps-map-processing: the direct bit-packed codec   *)
(* (CompressedRoomTerrain), the edge-only codec (RoomEdgeTerrain), the     *)
(* generic and packed run engines and the room terrain codecs built on     *)
(* them (RLERoomTerrain, PackedRLERoomTerrain, WildcardRLERoomTerrain).    *)
(*                                                                         *)
(* Arrays are functions over 0..n-1 (the source's indices); a Vec is a     *)
(* sequence (1..n), so vec[i] of the source is vec[i + 1] here.            *)
(* Option::None is the string "None"; a panic (unwrap on None,             *)
(* unreachable!, index out of bounds) is the string "panic".               *)
(***************************************************************************)
EXTENDS Integers, Sequences, FiniteSets, TLC

VARIABLES
    op,            \* the operation that produced the current state
    bits,          \* raw room terrain, the input of the terrain codecs
    compressed,    \* CompressedRoomTerrain.data, <<>> while not built
    uncompressed,  \* result of get_uncompressed_bits, <<>> while not taken
    rle,           \* RLERoomTerrain.data.vec
    packed,        \* PackedRLERoomTerrain.data.vec
    wild,          \* WildcardRLERoomTerrain {data, edge_data}
    top,           \* the four slices handed to new_from_terrain_slices
    right,
    bottom,
    left,
    raw,           \* the bytes handed to new_from_raw_bytes
    edge,          \* Result<RoomEdgeTerrain, RoomEdgeTerrainParseError>
    exits_data,    \* RoomExitsData {data, num_top_exits, .., num_left_exits}
    args,          \* the arguments of the last call on a run engine or on RoomExit
    ret            \* what that call returned

vars == <<op, bits, compressed, uncompressed, rle, packed, wild,
          top, right, bottom, left, raw, edge, exits_data, args, ret>>

----------------------------------------------------------------------------
(* Program constants *)

ROOM_SIZE == 50
ROOM_AREA == 2500
COMPRESSED_ARRAY_SIZE == ROOM_AREA \div 4

(* Bounds of the input families *)

MaxPeriod == 3      \* base grids repeat with a period of 1..MaxPeriod tiles
MaxOffset == 3      \* base grids start at raw value 0..MaxOffset
MaxEdgePattern == 3 \* edge slices follow one of the patterns 0..MaxEdgePattern
MaxLenDelta == 1    \* edge slices have a length of 50 - MaxLenDelta .. 50 + MaxLenDelta
MaxRawStep == 3     \* raw edge bytes step by 0..MaxRawStep times RAW_STRIDE

None == "None"
Panic == "panic"
Terrains == {"Plain", "Wall", "Swamp"}

----------------------------------------------------------------------------
(* u8 / u16 bit arithmetic *)

RECURSIVE BitAnd(_, _)
BitAnd(a, b) ==
    IF a = 0 \/ b = 0 THEN 0
    ELSE (a % 2) * (b % 2) + 2 * BitAnd(a \div 2, b \div 2)

RECURSIVE BitOr(_, _)
BitOr(a, b) ==
    IF a = 0 THEN b
    ELSE IF b = 0 THEN a
    ELSE (IF a % 2 = 1 \/ b % 2 = 1 THEN 1 ELSE 0) + 2 * BitOr(a \div 2, b \div 2)

Shl8(a, n) == (a * (2 ^ n)) % 256
Shl16(a, n) == (a * (2 ^ n)) % 65536
Shr(a, n) == a \div (2 ^ n)

----------------------------------------------------------------------------
(* Coordinates: RoomXY is a record [x, y], each in 0..ROOM_SIZE-1 *)

RoomXY == [x : 0..(ROOM_SIZE - 1), y : 0..(ROOM_SIZE - 1)]

xy_to_terrain_index(xy) == xy.x + ROOM_SIZE * xy.y

terrain_index_to_xy(idx) == [x |-> idx % ROOM_SIZE, y |-> idx \div ROOM_SIZE]

is_room_edge(xy) ==
    xy.x = 0 \/ xy.x = ROOM_SIZE - 1 \/ xy.y = 0 \/ xy.y = ROOM_SIZE - 1

div_rem(x, y) == <<x \div y, x % y>>

----------------------------------------------------------------------------
(* CompressedRoomTerrain: 4 tiles per byte, 625 bytes *)

get_uncompressed_terrain_byte_colmajor(data, xy) ==
    LET dr == div_rem(xy.y + ROOM_SIZE * xy.x, 4)
    IN  BitAnd(Shr(data[dr[1]], 6 - 2 * dr[2]), 3)

get_uncompressed_terrain_byte(data, xy) ==
    LET uncompressed_index == xy_to_terrain_index(xy)
        dr == div_rem(uncompressed_index, 4)
        byte_index == dr[1]
        internal_offset == dr[2]
        raw_byte == data[byte_index]
        bitshift_amount == CASE internal_offset = 0 -> 6
                             [] internal_offset = 1 -> 4
                             [] internal_offset = 2 -> 2
                             [] internal_offset = 3 -> 0
        mask == 3
    IN  BitAnd(Shr(raw_byte, bitshift_amount), mask)

terrain_from_2_bits(byte) ==
    CASE BitAnd(byte, 3) = 0 -> "Plain"
      [] BitAnd(byte, 3) = 1 \/ BitAnd(byte, 3) = 3 -> "Wall"
      [] BitAnd(byte, 3) = 2 -> "Swamp"

CompressedRoomTerrain_get_xy(data, xy) ==
    terrain_from_2_bits(get_uncompressed_terrain_byte(data, xy))

compress_4_bytes_unmasked(bytes) ==
    BitOr(BitOr(BitOr(Shl8(bytes[0], 6), Shl8(bytes[1], 4)), Shl8(bytes[2], 2)), bytes[3])

compress_4_bytes(bytes) ==
    LET working_bytes == [i \in 0..3 |-> IF i \in DOMAIN bytes THEN bytes[i] ELSE 0]
        mask == 3
        first_byte_bits == Shl8(BitAnd(working_bytes[0], mask), 6)
        second_byte_bits == Shl8(BitAnd(working_bytes[1], mask), 4)
        third_byte_bits == Shl8(BitAnd(working_bytes[2], mask), 2)
        fourth_byte_bits == BitAnd(working_bytes[3], mask)
    IN  BitOr(BitOr(BitOr(first_byte_bits, second_byte_bits), third_byte_bits), fourth_byte_bits)

uncompress_byte_reversed(byte) ==
    [k \in 0..3 |-> BitAnd(Shr(byte, 2 * k), 3)]

uncompress_byte(byte) ==
    LET mask == 3
    IN  [k \in 0..3 |->
            CASE k = 0 -> BitAnd(Shr(byte, 6), mask)
              [] k = 1 -> BitAnd(Shr(byte, 4), mask)
              [] k = 2 -> BitAnd(Shr(byte, 2), mask)
              [] k = 3 -> BitAnd(byte, mask)]

\* bits.chunks_exact(4): chunk i is bits[4i .. 4i+3]
new_from_uncompressed_bits(b) ==
    [i \in 0..(COMPRESSED_ARRAY_SIZE - 1) |->
        compress_4_bytes([k \in 0..3 |-> b[4 * i + k]])]

\* one output chunk of 4 per compressed byte, in order
get_uncompressed_bits(data) ==
    [j \in 0..(ROOM_AREA - 1) |-> uncompress_byte(data[j \div 4])[j % 4]]

----------------------------------------------------------------------------
(* LocalRoomTerrain (screeps crate): the uncompressed terrain of a room *)

LocalRoomTerrain_get_xy(b, xy) ==
    terrain_from_2_bits(b[xy_to_terrain_index(xy)])

----------------------------------------------------------------------------
(* Generic run engine: IndexedRLE<T, S> and BinarySearchRLE<T, S> *)

IndexedRLE_new(token, start) == [token |-> token, start |-> start]

can_append_any_start(self, other) == self.token = other.token

can_append_strict(self, other) ==
    (self.token = other.token) /\ (self.start < other.start)

can_append(self, other) ==
    (self.token = other.token) /\ (self.start <= other.start)

push_rle_ordered(vec, item) ==
    IF Len(vec) > 0 /\ (can_append(vec[Len(vec)], item) \/ item.start < vec[Len(vec)].start)
    THEN [vec |-> vec, ret |-> FALSE]
    ELSE [vec |-> Append(vec, item), ret |-> TRUE]

push_rle_replace_tail(vec, item) ==
    IF Len(vec) > 0 /\ can_append(vec[Len(vec)], item)
    THEN [vec |-> [vec EXCEPT ![Len(vec)] = item], ret |-> FALSE]
    ELSE [vec |-> Append(vec, item), ret |-> TRUE]

push_rle_always(vec, item) == [vec |-> Append(vec, item), ret |-> TRUE]

\* rle::AppendRle::push_rle: merge into the last item when it can_append
\* (IndexedRLE::append is a no-op), else push; true when pushed
push_rle(vec, item) ==
    IF Len(vec) > 0 /\ can_append(vec[Len(vec)], item)
    THEN [vec |-> vec, ret |-> FALSE]
    ELSE [vec |-> Append(vec, item), ret |-> TRUE]

append_run(vec, run) == push_rle(vec, run)

append_token(vec, token, start) == append_run(vec, IndexedRLE_new(token, start))

\* slice::partition_point(|item| item.start < index) by bisection of [lo, hi)
RECURSIVE partition_point(_, _, _, _)
partition_point(vec, index, lo, hi) ==
    IF lo >= hi THEN lo
    ELSE LET mid == lo + ((hi - lo) \div 2)
         IN  IF vec[mid + 1].start < index
             THEN partition_point(vec, index, mid + 1, hi)
             ELSE partition_point(vec, index, lo, mid)

find_token_at_index_no_exact(vec, index) ==
    IF Len(vec) = 0 THEN None
    ELSE IF index < vec[1].start THEN None
    ELSE LET idx == partition_point(vec, index, 0, Len(vec))
         IN  IF idx = 0 THEN Panic ELSE vec[idx].token

find_token_at_index_partition_run(vec, index) ==
    IF Len(vec) = 0 THEN None
    ELSE IF index < vec[1].start THEN None
    ELSE LET idx == partition_point(vec, index, 0, Len(vec))
             run_idx == IF idx = Len(vec) THEN idx - 1 ELSE idx
         IN  vec[run_idx + 1].token

find_token_at_index(vec, index) ==
    IF Len(vec) = 0 THEN None
    ELSE IF index < vec[1].start THEN None
    ELSE LET idx == partition_point(vec, index, 0, Len(vec))
             run_idx == IF idx = Len(vec) THEN idx - 1
                        ELSE IF vec[idx + 1].start = index THEN idx
                        ELSE idx - 1
         IN  IF run_idx < 0 THEN Panic ELSE vec[run_idx + 1].token

num_runs(vec) == Len(vec)

\* size_of on a 64-bit target: Terrain is a one-byte enum, IndexedRLE<Terrain, u16>
\* is its three bytes of fields rounded up to its alignment of two, a Vec is
\* pointer, capacity and length
SIZE_OF_TERRAIN == 1
SIZE_OF_U16 == 2
SIZE_OF_USIZE == 8
size_of_IndexedRLE ==
    ((SIZE_OF_TERRAIN + SIZE_OF_U16 + SIZE_OF_U16 - 1) \div SIZE_OF_U16) * SIZE_OF_U16
size_of_Vec == 3 * SIZE_OF_USIZE

BinarySearchRLE_memory_size(vec) == Len(vec) * size_of_IndexedRLE + size_of_Vec

unwrap(option) == IF option = None THEN Panic ELSE option

\* the tile read at each linear index by the walk for idx in 0..ROOM_AREA
uncompressed_tiles(terrain) ==
    [idx \in 0..(ROOM_AREA - 1) |-> LocalRoomTerrain_get_xy(terrain, terrain_index_to_xy(idx))]

compressed_tiles(terrain) ==
    [idx \in 0..(ROOM_AREA - 1) |-> CompressedRoomTerrain_get_xy(terrain, terrain_index_to_xy(idx))]

\* for idx in lo..hi { data.append_token(tile, idx as u16); }: the iterations
\* in index order (the lower half is finished before the upper half starts)
RECURSIVE rle_walk_shifted(_, _, _, _)
rle_walk_shifted(tile, data, lo, hi) ==
    IF hi <= lo THEN data
    ELSE IF hi = lo + 1 THEN append_token(data, tile[lo], lo + 1).vec
    ELSE LET mid == (lo + hi) \div 2
             first == rle_walk_shifted(tile, data, lo, mid)
         IN  IF first = first THEN rle_walk_shifted(tile, first, mid, hi) ELSE first

RECURSIVE rle_walk(_, _, _, _)
rle_walk(tile, data, lo, hi) ==
    IF hi <= lo THEN data
    ELSE IF hi = lo + 1 THEN append_token(data, tile[lo], lo).vec
    ELSE LET mid == (lo + hi) \div 2
             first == rle_walk(tile, data, lo, mid)
         IN  IF first = first THEN rle_walk(tile, first, mid, hi) ELSE first

----------------------------------------------------------------------------
(* RLERoomTerrain: the generic engine over Terrain tokens and u16 starts *)

RLERoomTerrain_new_from_uncompressed_terrain(terrain) ==
    rle_walk(uncompressed_tiles(terrain), <<>>, 0, ROOM_AREA)

RLERoomTerrain_new_from_compressed_terrain(terrain) ==
    rle_walk(compressed_tiles(terrain), <<>>, 0, ROOM_AREA)

RLERoomTerrain_get_xy(data, xy) ==
    unwrap(find_token_at_index(data, xy_to_terrain_index(xy)))

RLERoomTerrain_memory_size(data) == BinarySearchRLE_memory_size(data)

----------------------------------------------------------------------------
(* Packed run engine: RoomTerrainPackedIndexedRLE (one u16 per run, layout *)
(* 00ttssssssssssss) and BinarySearchPackedRoomTerrainRLE                  *)

get_packed_repr_shl_14(terrain, start) ==
    LET terrain_bytes == CASE terrain = "Plain" -> 0
                           [] terrain = "Wall" -> 1
                           [] terrain = "Swamp" -> 2
    IN  BitOr(Shl16(terrain_bytes, 14), start)

get_packed_repr(terrain, start) ==
    LET terrain_bytes == CASE terrain = "Plain" -> 0
                           [] terrain = "Wall" -> 1
                           [] terrain = "Swamp" -> 2
    IN  BitOr(Shl16(terrain_bytes, 12), start)

new_from_packed_repr(p) == p

RoomTerrainPackedIndexedRLE_new(terrain, start) ==
    new_from_packed_repr(get_packed_repr(terrain, start))

packed_terrain(p) ==
    CASE Shr(p, 12) = 0 -> "Plain"
      [] Shr(p, 12) = 1 -> "Wall"
      [] Shr(p, 12) = 2 -> "Swamp"
      [] OTHER -> Panic

packed_start(p) == BitAnd(p, 4095)

packed_repr(p) == p

\* terrain() hits unreachable!() on a word whose bits 15-12 hold 3 or more
terrain_panics(p) == Shr(p, 12) > 2

packed_can_append(self, other) ==
    (packed_terrain(self) = packed_terrain(other)) /\ (packed_start(self) <= packed_start(other))

packed_push_rle_any_start(vec, item) ==
    IF Len(vec) = 0 THEN [vec |-> Append(vec, item), ret |-> TRUE, panic |-> FALSE]
    ELSE IF terrain_panics(vec[Len(vec)]) \/ terrain_panics(item)
    THEN [vec |-> vec, ret |-> FALSE, panic |-> TRUE]
    ELSE IF packed_terrain(vec[Len(vec)]) = packed_terrain(item)
    THEN [vec |-> vec, ret |-> FALSE, panic |-> FALSE]
    ELSE [vec |-> Append(vec, item), ret |-> TRUE, panic |-> FALSE]

\* push_rle over packed runs; can_append reads terrain() of the last run and of
\* the item, and the call panics (panic |-> TRUE, nothing returned) when one of
\* the two reads does
packed_push_rle(vec, item) ==
    IF Len(vec) = 0 THEN [vec |-> Append(vec, item), ret |-> TRUE, panic |-> FALSE]
    ELSE IF terrain_panics(vec[Len(vec)]) \/ terrain_panics(item)
    THEN [vec |-> vec, ret |-> FALSE, panic |-> TRUE]
    ELSE IF packed_can_append(vec[Len(vec)], item)
    THEN [vec |-> vec, ret |-> FALSE, panic |-> FALSE]
    ELSE [vec |-> Append(vec, item), ret |-> TRUE, panic |-> FALSE]

packed_append_run(vec, run) == packed_push_rle(vec, run)

packed_append_token(vec, terrain, start) ==
    packed_append_run(vec, RoomTerrainPackedIndexedRLE_new(terrain, start))

RECURSIVE packed_partition_point(_, _, _, _)
packed_partition_point(vec, index, lo, hi) ==
    IF lo >= hi THEN lo
    ELSE LET mid == lo + ((hi - lo) \div 2)
         IN  IF packed_start(vec[mid + 1]) < index
             THEN packed_partition_point(vec, index, mid + 1, hi)
             ELSE packed_partition_point(vec, index, lo, mid)

packed_find_token_at_index_next_run(vec, index) ==
    IF Len(vec) = 0 THEN None
    ELSE IF index < packed_start(vec[1]) THEN None
    ELSE LET idx == packed_partition_point(vec, index, 0, Len(vec))
         IN  packed_terrain(vec[IF idx = Len(vec) THEN idx ELSE idx + 1])

packed_find_token_at_index(vec, index) ==
    IF Len(vec) = 0 THEN None
    ELSE IF index < packed_start(vec[1]) THEN None
    ELSE LET idx == packed_partition_point(vec, index, 0, Len(vec))
             run_idx == IF idx = Len(vec) THEN idx - 1
                        ELSE IF packed_start(vec[idx + 1]) = index THEN idx
                        ELSE idx - 1
         IN  IF run_idx < 0 THEN Panic ELSE packed_terrain(vec[run_idx + 1])

packed_num_runs(vec) == Len(vec)

RoomTerrainPackedIndexedRLE_memory_size_of_usize == SIZE_OF_USIZE

RoomTerrainPackedIndexedRLE_memory_size == SIZE_OF_U16

BinarySearchPackedRoomTerrainRLE_memory_size(vec) ==
    LET data_size == IF Len(vec) > 0
                     THEN Len(vec) * RoomTerrainPackedIndexedRLE_memory_size
                     ELSE 0
        vec_size == size_of_Vec
    IN  data_size + vec_size

\* self.vec[self.vec.len()] is one past the last element: the index is out of
\* bounds whenever the vec is not empty
last_token(vec) ==
    IF Len(vec) > 0
    THEN IF Len(vec) + 1 \in DOMAIN vec THEN packed_terrain(vec[Len(vec) + 1]) ELSE Panic
    ELSE None

----------------------------------------------------------------------------
(* PackedRLERoomTerrain *)

RECURSIVE packed_walk(_, _, _, _)
packed_walk(tile, data, lo, hi) ==
    IF hi <= lo THEN data
    ELSE IF hi = lo + 1 THEN packed_append_token(data, tile[lo], lo).vec
    ELSE LET mid == (lo + hi) \div 2
             first == packed_walk(tile, data, lo, mid)
         IN  IF first = first THEN packed_walk(tile, first, mid, hi) ELSE first

PackedRLERoomTerrain_new_from_uncompressed_terrain(terrain) ==
    packed_walk(uncompressed_tiles(terrain), <<>>, 0, ROOM_AREA)

PackedRLERoomTerrain_new_from_compressed_terrain(terrain) ==
    packed_walk(compressed_tiles(terrain), <<>>, 0, ROOM_AREA)

PackedRLERoomTerrain_get_xy(data, xy) ==
    unwrap(packed_find_token_at_index(data, xy_to_terrain_index(xy)))

PackedRLERoomTerrain_memory_size(data) == BinarySearchPackedRoomTerrainRLE_memory_size(data)

----------------------------------------------------------------------------
(* RoomEdgeTerrain: 24 bytes, four 6-byte chunks (top, right, bottom,      *)
(* left), one bit per non-corner edge tile                                 *)

EdgeErrors == {"TopEdgeNotLength50", "RightEdgeNotLength50",
               "BottomEdgeNotLength50", "LeftEdgeNotLength50"}

Ok(data) == [tag |-> "Ok", data |-> data]
Err(e) == [tag |-> "Err", err |-> e]

new_from_raw_bytes(data) == data

get_byte_from_terrain_lsb_first(terrain) ==
    LET RECURSIVE fold(_, _)
        fold(output, i) ==
            IF i > 7 THEN output
            ELSE fold(IF terrain[i] = "Wall" THEN BitOr(output, Shl8(1, i)) ELSE output, i + 1)
    IN  fold(0, 0)

\* terrain: 8 tiles, indices 0..7
get_byte_from_terrain(terrain) ==
    LET RECURSIVE fold(_, _)
        fold(output, i) ==
            IF i > 7 THEN output
            ELSE fold(IF terrain[i] = "Wall" THEN BitOr(output, Shl8(1, 7 - i)) ELSE output, i + 1)
    IN  fold(0, 0)

copy_edge_terrain_to_byte_slice_from_0(terrain) ==
    [i \in 0..5 |-> get_byte_from_terrain([k \in 0..7 |-> terrain[8 * i + k]])]

\* terrain: 50 tiles, indices 0..49; chunk i of terrain[1..=48] is
\* terrain[1 + 8i .. 8 + 8i]; the result is the 6 output bytes
copy_edge_terrain_to_byte_slice(terrain) ==
    [i \in 0..5 |-> get_byte_from_terrain([k \in 0..7 |-> terrain[1 + 8 * i + k]])]

\* a slice (sequence) as the array [Terrain; 50] of try_into
slice_to_array(slice) == [i \in 0..(Len(slice) - 1) |-> slice[i + 1]]

new_from_terrain_slices_check_top_last(t, r, b, l) ==
    IF Len(r) # 50 THEN Err("RightEdgeNotLength50")
    ELSE IF Len(b) # 50 THEN Err("BottomEdgeNotLength50")
    ELSE IF Len(l) # 50 THEN Err("LeftEdgeNotLength50")
    ELSE IF Len(t) # 50 THEN Err("TopEdgeNotLength50")
    ELSE LET slices == <<slice_to_array(t), slice_to_array(r),
                         slice_to_array(b), slice_to_array(l)>>
         IN  Ok([j \in 0..23 |->
                    copy_edge_terrain_to_byte_slice(slices[(j \div 6) + 1])[j % 6]])

new_from_terrain_slices_left_first(t, r, b, l) ==
    IF Len(t) # 50 THEN Err("TopEdgeNotLength50")
    ELSE IF Len(r) # 50 THEN Err("RightEdgeNotLength50")
    ELSE IF Len(b) # 50 THEN Err("BottomEdgeNotLength50")
    ELSE IF Len(l) # 50 THEN Err("LeftEdgeNotLength50")
    ELSE LET slices == <<slice_to_array(l), slice_to_array(t),
                         slice_to_array(r), slice_to_array(b)>>
         IN  Ok([j \in 0..23 |->
                    copy_edge_terrain_to_byte_slice(slices[(j \div 6) + 1])[j % 6]])

new_from_terrain_slices(t, r, b, l) ==
    IF Len(t) # 50 THEN Err("TopEdgeNotLength50")
    ELSE IF Len(r) # 50 THEN Err("RightEdgeNotLength50")
    ELSE IF Len(b) # 50 THEN Err("BottomEdgeNotLength50")
    ELSE IF Len(l) # 50 THEN Err("LeftEdgeNotLength50")
    ELSE LET slices == <<slice_to_array(t), slice_to_array(r),
                         slice_to_array(b), slice_to_array(l)>>
         IN  Ok([j \in 0..23 |->
                    copy_edge_terrain_to_byte_slice(slices[(j \div 6) + 1])[j % 6]])

get_raw_bytes(data) == data

copy_terrain_from_byte(byte) ==
    [i \in 0..7 |->
        LET bit_idx == 7 - i
        IN  CASE BitAnd(Shr(byte, bit_idx), 1) = 0 -> "Plain"
              [] BitAnd(Shr(byte, bit_idx), 1) = 1 -> "Wall"]

get_tile_terrain_from_chunk_lsb_first(chunk, edge_offset) ==
    IF (edge_offset < 49) /\ (edge_offset > 0)
    THEN LET offset == edge_offset - 1
             byte == chunk[offset \div 8]
             bitshift == offset % 8
         IN  IF BitAnd(Shr(byte, bitshift), 1) = 0 THEN "Plain" ELSE "Wall"
    ELSE None

get_tile_terrain_from_chunk(chunk, edge_offset) ==
    IF (edge_offset < 49) /\ (edge_offset > 0)
    THEN LET offset == edge_offset - 1
             byte == chunk[offset \div 8]
             bit_idx == offset % 8
             bitshift == 7 - bit_idx
         IN  CASE BitAnd(Shr(byte, bitshift), 1) = 0 -> "Plain"
               [] BitAnd(Shr(byte, bitshift), 1) = 1 -> "Wall"
    ELSE None

get_edge_terrain_from_bytes_no_corners(bytes) ==
    [i \in 0..49 |->
        IF i = 0 \/ i = 49 THEN "Plain"
        ELSE copy_terrain_from_byte(bytes[(i - 1) \div 8])[(i - 1) % 8]]

\* edge starts as [Wall; 50]; byte j is expanded into edge[1 + 8j .. 8 + 8j]
get_edge_terrain_from_bytes(bytes) ==
    [i \in 0..49 |->
        IF i = 0 \/ i = 49 THEN "Wall"
        ELSE copy_terrain_from_byte(bytes[(i - 1) \div 8])[(i - 1) % 8]]

get_top_edge_bytes_slice(data) == [j \in 0..5 |-> data[j]]
get_right_edge_bytes_slice(data) == [j \in 0..5 |-> data[6 + j]]
get_bottom_edge_bytes_slice(data) == [j \in 0..5 |-> data[12 + j]]
get_left_edge_bytes_slice(data) == [j \in 0..5 |-> data[18 + j]]

get_top_edge_terrain(data) == get_edge_terrain_from_bytes(get_top_edge_bytes_slice(data))
get_right_edge_terrain(data) == get_edge_terrain_from_bytes(get_right_edge_bytes_slice(data))
get_bottom_edge_terrain(data) == get_edge_terrain_from_bytes(get_bottom_edge_bytes_slice(data))
get_left_edge_terrain(data) == get_edge_terrain_from_bytes(get_left_edge_bytes_slice(data))

RoomEdgeTerrain_get_xy_swapped_sides(data, xy) ==
    LET x == xy.x
        y == xy.y
    IN  IF <<x, y>> \in {<<0, 0>>, <<0, 49>>, <<49, 0>>, <<49, 49>>} THEN "Wall"
        ELSE IF x > 0 /\ x < 49 /\ y > 0 /\ y < 49 THEN None
        ELSE IF x > 49 \/ y > 49 THEN None
        ELSE CASE x \in 1..48 /\ y = 0 ->
                    get_tile_terrain_from_chunk(get_top_edge_bytes_slice(data), x)
               [] x \in 1..48 /\ y = 49 ->
                    get_tile_terrain_from_chunk(get_bottom_edge_bytes_slice(data), x)
               [] x = 0 /\ y \in 1..48 ->
                    get_tile_terrain_from_chunk(get_right_edge_bytes_slice(data), y)
               [] x = 49 /\ y \in 1..48 ->
                    get_tile_terrain_from_chunk(get_left_edge_bytes_slice(data), y)
               [] OTHER -> Panic

RoomEdgeTerrain_get_xy(data, xy) ==
    LET x == xy.x
        y == xy.y
    IN  IF <<x, y>> \in {<<0, 0>>, <<0, 49>>, <<49, 0>>, <<49, 49>>} THEN "Wall"
        ELSE IF x > 0 /\ x < 49 /\ y > 0 /\ y < 49 THEN None
        ELSE IF x > 49 \/ y > 49 THEN None
        ELSE CASE x \in 1..48 /\ y = 0 ->
                    get_tile_terrain_from_chunk(get_top_edge_bytes_slice(data), x)
               [] x \in 1..48 /\ y = 49 ->
                    get_tile_terrain_from_chunk(get_bottom_edge_bytes_slice(data), x)
               [] x = 0 /\ y \in 1..48 ->
                    get_tile_terrain_from_chunk(get_left_edge_bytes_slice(data), y)
               [] x = 49 /\ y \in 1..48 ->
                    get_tile_terrain_from_chunk(get_right_edge_bytes_slice(data), y)
               [] OTHER -> Panic

----------------------------------------------------------------------------
(* WildcardRLERoomTerrain: packed runs over the non-edge tiles plus a      *)
(* RoomEdgeTerrain for the edge tiles                                      *)

unwrap_or(result, default) == IF result.tag = "Ok" THEN result.data ELSE default

EmptyWalk ==
    [data |-> <<>>, top_edge_terrain |-> <<>>, right_edge_terrain |-> <<>>,
     bottom_edge_terrain |-> <<>>, left_edge_terrain |-> <<>>]

\* what one iteration of the walk does with an edge tile, by the match arm
push_top(w, t) == [w EXCEPT !.top_edge_terrain = Append(@, t)]
push_right(w, t) == [w EXCEPT !.right_edge_terrain = Append(@, t)]
push_bottom(w, t) == [w EXCEPT !.bottom_edge_terrain = Append(@, t)]
push_left(w, t) == [w EXCEPT !.left_edge_terrain = Append(@, t)]

walk_finish(w) ==
    [data |-> w.data,
     edge_data |-> unwrap_or(new_from_terrain_slices(w.top_edge_terrain, w.right_edge_terrain,
                                                     w.bottom_edge_terrain, w.left_edge_terrain),
                             new_from_raw_bytes([j \in 0..23 |-> 0]))]

wildcard_step_uncompressed_swapped_edges(w, xy, tile, idx) ==
    IF is_room_edge(xy)
    THEN CASE xy.x = 0 /\ xy.y = 0 -> push_left(push_top(w, "Wall"), "Wall")
           [] xy.x = 0 /\ xy.y = 49 -> push_left(push_bottom(w, "Wall"), "Wall")
           [] xy.x = 49 /\ xy.y = 0 -> push_right(push_top(w, "Wall"), "Wall")
           [] xy.x = 49 /\ xy.y = 49 -> push_right(push_bottom(w, "Wall"), "Wall")
           [] xy.x \in 1..48 /\ xy.y = 0 -> push_top(w, tile)
           [] xy.x \in 1..48 /\ xy.y = 49 -> push_bottom(w, tile)
           [] xy.x = 0 /\ xy.y \in 1..48 -> push_right(w, tile)
           [] xy.x = 49 /\ xy.y \in 1..48 -> push_left(w, tile)
           [] OTHER -> w
    ELSE [w EXCEPT !.data = packed_append_token(@, tile, idx).vec]

wildcard_step_uncompressed_all_tiles(w, xy, tile, idx) ==
    [w EXCEPT !.data = packed_append_token(@, tile, idx).vec]

wildcard_step_uncompressed_edges_as_wall(w, xy, tile, idx) ==
    [w EXCEPT !.data = packed_append_token(@, IF is_room_edge(xy) THEN "Wall" ELSE tile, idx).vec]

wildcard_step_uncompressed(w, xy, tile, idx) ==
    IF is_room_edge(xy)
    THEN CASE xy.x = 0 /\ xy.y = 0 -> push_left(push_top(w, "Wall"), "Wall")
           [] xy.x = 0 /\ xy.y = 49 -> push_left(push_bottom(w, "Wall"), "Wall")
           [] xy.x = 49 /\ xy.y = 0 -> push_right(push_top(w, "Wall"), "Wall")
           [] xy.x = 49 /\ xy.y = 49 -> push_right(push_bottom(w, "Wall"), "Wall")
           [] xy.x \in 1..48 /\ xy.y = 0 -> push_top(w, tile)
           [] xy.x \in 1..48 /\ xy.y = 49 -> push_bottom(w, tile)
           [] xy.x = 0 /\ xy.y \in 1..48 -> push_left(w, tile)
           [] xy.x = 49 /\ xy.y \in 1..48 -> push_right(w, tile)
           [] OTHER -> w
    ELSE [w EXCEPT !.data = packed_append_token(@, tile, idx).vec]

\* the arms for (1..=48, 0) and (1..=48, 49) push to the left and the right list
wildcard_step_compressed(w, xy, tile, idx) ==
    IF is_room_edge(xy)
    THEN CASE xy.x = 0 /\ xy.y = 0 -> push_left(push_top(w, "Wall"), "Wall")
           [] xy.x = 0 /\ xy.y = 49 -> push_left(push_bottom(w, "Wall"), "Wall")
           [] xy.x = 49 /\ xy.y = 0 -> push_right(push_top(w, "Wall"), "Wall")
           [] xy.x = 49 /\ xy.y = 49 -> push_right(push_bottom(w, "Wall"), "Wall")
           [] xy.x \in 1..48 /\ xy.y = 0 -> push_left(w, tile)
           [] xy.x \in 1..48 /\ xy.y = 49 -> push_right(w, tile)
           [] xy.x = 0 /\ xy.y \in 1..48 -> push_left(w, tile)
           [] xy.x = 49 /\ xy.y \in 1..48 -> push_right(w, tile)
           [] OTHER -> w
    ELSE [w EXCEPT !.data = packed_append_token(@, tile, idx).vec]

RECURSIVE wildcard_walk_uncompressed(_, _, _, _)
wildcard_walk_uncompressed(tile, w, lo, hi) ==
    IF hi <= lo THEN w
    ELSE IF hi = lo + 1 THEN wildcard_step_uncompressed(w, terrain_index_to_xy(lo), tile[lo], lo)
    ELSE LET mid == (lo + hi) \div 2
             first == wildcard_walk_uncompressed(tile, w, lo, mid)
         IN  IF first = first THEN wildcard_walk_uncompressed(tile, first, mid, hi) ELSE first

RECURSIVE wildcard_walk_compressed(_, _, _, _)
wildcard_walk_compressed(tile, w, lo, hi) ==
    IF hi <= lo THEN w
    ELSE IF hi = lo + 1 THEN wildcard_step_compressed(w, terrain_index_to_xy(lo), tile[lo], lo)
    ELSE LET mid == (lo + hi) \div 2
             first == wildcard_walk_compressed(tile, w, lo, mid)
         IN  IF first = first THEN wildcard_walk_compressed(tile, first, mid, hi) ELSE first

WildcardRLERoomTerrain_new_from_uncompressed_terrain(terrain) ==
    walk_finish(wildcard_walk_uncompressed(uncompressed_tiles(terrain), EmptyWalk, 0, ROOM_AREA))

WildcardRLERoomTerrain_new_from_compressed_terrain(terrain) ==
    walk_finish(wildcard_walk_compressed(compressed_tiles(terrain), EmptyWalk, 0, ROOM_AREA))

WildcardRLERoomTerrain_num_runs(w) == packed_num_runs(w.data)

WildcardRLERoomTerrain_get_xy(w, xy) ==
    IF is_room_edge(xy)
    THEN LET r == RoomEdgeTerrain_get_xy(w.edge_data, xy)
         IN  IF r = None THEN "Wall" ELSE r
    ELSE unwrap(packed_find_token_at_index(w.data, xy_to_terrain_index(xy)))

----------------------------------------------------------------------------
(* Inputs of the terrain codecs: a base grid, periodic in the linear       *)
(* index, as it is or with linear index 1 overwritten by a Swamp           *)

SWAMP_BITS == 2

BaseGrid(m, c) == [i \in 0..(ROOM_AREA - 1) |-> (i % m) + c]

Grids ==
    UNION {{BaseGrid(m, c), [BaseGrid(m, c) EXCEPT ![1] = SWAMP_BITS]} :
              m \in 1..MaxPeriod, c \in 0..MaxOffset}

NoEdge == [tag |-> "none"]
NoWild == [data |-> <<>>, edge_data |-> <<>>]
NoCall == <<>>
NoExitsData == <<>>

Init ==
    /\ op = "input"
    /\ bits \in Grids
    /\ compressed = <<>>
    /\ uncompressed = <<>>
    /\ rle = <<>>
    /\ packed = <<>>
    /\ wild = NoWild
    /\ top = <<>> /\ right = <<>> /\ bottom = <<>> /\ left = <<>>
    /\ raw = <<>>
    /\ edge = NoEdge
    /\ exits_data = NoExitsData
    /\ args = NoCall
    /\ ret = NoCall

EdgeVars == <<top, right, bottom, left, raw, edge, exits_data>>
CallVars == <<args, ret>>

NewFromUncompressedBits ==
    /\ op = "input"
    /\ compressed' = new_from_uncompressed_bits(bits)
    /\ op' = "CompressedRoomTerrain::new_from_uncompressed_bits"
    /\ UNCHANGED <<bits, uncompressed, rle, packed, wild, EdgeVars, CallVars>>

GetUncompressedBits ==
    /\ op = "CompressedRoomTerrain::new_from_uncompressed_bits"
    /\ uncompressed' = get_uncompressed_bits(compressed)
    /\ op' = "CompressedRoomTerrain::get_uncompressed_bits"
    /\ UNCHANGED <<bits, compressed, rle, packed, wild, EdgeVars, CallVars>>

RLEFromUncompressed ==
    /\ op = "input"
    /\ rle' = RLERoomTerrain_new_from_uncompressed_terrain(bits)
    /\ op' = "RLERoomTerrain::new_from_uncompressed_terrain"
    /\ UNCHANGED <<bits, compressed, uncompressed, packed, wild, EdgeVars, CallVars>>

RLEFromCompressed ==
    /\ op = "CompressedRoomTerrain::new_from_uncompressed_bits"
    /\ rle' = RLERoomTerrain_new_from_compressed_terrain(compressed)
    /\ op' = "RLERoomTerrain::new_from_compressed_terrain"
    /\ UNCHANGED <<bits, compressed, uncompressed, packed, wild, EdgeVars, CallVars>>

PackedFromUncompressed ==
    /\ op = "input"
    /\ packed' = PackedRLERoomTerrain_new_from_uncompressed_terrain(bits)
    /\ op' = "PackedRLERoomTerrain::new_from_uncompressed_terrain"
    /\ UNCHANGED <<bits, compressed, uncompressed, rle, wild, EdgeVars, CallVars>>

PackedFromCompressed ==
    /\ op = "CompressedRoomTerrain::new_from_uncompressed_bits"
    /\ packed' = PackedRLERoomTerrain_new_from_compressed_terrain(compressed)
    /\ op' = "PackedRLERoomTerrain::new_from_compressed_terrain"
    /\ UNCHANGED <<bits, compressed, uncompressed, rle, wild, EdgeVars, CallVars>>

WildcardFromUncompressed ==
    /\ op = "input"
    /\ wild' = WildcardRLERoomTerrain_new_from_uncompressed_terrain(bits)
    /\ op' = "WildcardRLERoomTerrain::new_from_uncompressed_terrain"
    /\ UNCHANGED <<bits, compressed, uncompressed, rle, packed, EdgeVars, CallVars>>

WildcardFromCompressed ==
    /\ op = "CompressedRoomTerrain::new_from_uncompressed_bits"
    /\ wild' = WildcardRLERoomTerrain_new_from_compressed_terrain(compressed)
    /\ op' = "WildcardRLERoomTerrain::new_from_compressed_terrain"
    /\ UNCHANGED <<bits, compressed, uncompressed, rle, packed, EdgeVars, CallVars>>

\* the size report of terrain_encoding_size_comparisons: both run codecs are
\* built from the same direct codec and asked for their memory_size
MemorySize ==
    /\ op = "CompressedRoomTerrain::new_from_uncompressed_bits"
    /\ rle' = RLERoomTerrain_new_from_compressed_terrain(compressed)
    /\ packed' = PackedRLERoomTerrain_new_from_compressed_terrain(compressed)
    /\ ret' = [rle_size |-> RLERoomTerrain_memory_size(rle'),
               rle_packed_size |-> PackedRLERoomTerrain_memory_size(packed')]
    /\ op' = "memory_size"
    /\ UNCHANGED <<bits, compressed, uncompressed, wild, EdgeVars, args>>

Next ==
    \/ NewFromUncompressedBits
    \/ GetUncompressedBits
    \/ RLEFromUncompressed
    \/ RLEFromCompressed
    \/ PackedFromUncompressed
    \/ PackedFromCompressed
    \/ WildcardFromUncompressed
    \/ WildcardFromCompressed
    \/ MemorySize

Spec == Init /\ [][Next]_vars

----------------------------------------------------------------------------
(* Properties of the terrain codecs, checked under Spec *)

RawInTerrainRange == \A i \in 0..(ROOM_AREA - 1) : bits[i] \in 0..3

RLEBuilt ==
    op \in {"RLERoomTerrain::new_from_uncompressed_terrain",
            "RLERoomTerrain::new_from_compressed_terrain"}

PackedBuilt ==
    op \in {"PackedRLERoomTerrain::new_from_uncompressed_terrain",
            "PackedRLERoomTerrain::new_from_compressed_terrain"}

IsCorner(xy) == xy.x \in {0, 49} /\ xy.y \in {0, 49}

\* the terrain table 0 -> Plain, 1 -> Wall, 2 -> Swamp, 3 -> Wall
TerrainTable == <<"Plain", "Wall", "Swamp", "Wall">>

\* the terrain class of the raw grid at (x, y): low two bits of bits[y*50 + x]
SourceTerrain(xy) == TerrainTable[(bits[xy.y * 50 + xy.x] % 4) + 1]

\* C1: for a grid of raw values in 0..3, the naive and the packed run codec,
\* built from the direct codec or from the uncompressed terrain, return at
\* every position the terrain class the direct codec of that grid returns.
C1_RunCodecsAgreeWithDirect ==
    RawInTerrainRange =>
        LET direct == new_from_uncompressed_bits(bits)
        IN  /\ RLEBuilt =>
                \A xy \in RoomXY :
                    RLERoomTerrain_get_xy(rle, xy) = CompressedRoomTerrain_get_xy(direct, xy)
            /\ PackedBuilt =>
                \A xy \in RoomXY :
                    PackedRLERoomTerrain_get_xy(packed, xy) = CompressedRoomTerrain_get_xy(direct, xy)

C1_Witness ==
    /\ op = "RLERoomTerrain::new_from_compressed_terrain"
    /\ RawInTerrainRange
    /\ \E i \in 0..(ROOM_AREA - 1) : bits[i] = 3
    /\ num_runs(rle) > 2
    /\ RLERoomTerrain_get_xy(rle, [x |-> 1, y |-> 0]) = "Swamp"

\* C2 as stated: the wildcard codec built from uncompressed terrain returns the
\* source class everywhere, except Plain for a Swamp on a room edge.
C2_Original ==
    op = "WildcardRLERoomTerrain::new_from_uncompressed_terrain" =>
        \A xy \in RoomXY :
            WildcardRLERoomTerrain_get_xy(wild, xy) =
                IF is_room_edge(xy) /\ SourceTerrain(xy) = "Swamp" THEN "Plain"
                ELSE SourceTerrain(xy)

\* C2 (amended): the wildcard codec built from uncompressed terrain returns Wall
\* at the four corners whatever the source holds there, Plain where the source
\* has Swamp on a non-corner edge position, and the source class everywhere else.
C2_WildcardFromUncompressed ==
    op = "WildcardRLERoomTerrain::new_from_uncompressed_terrain" =>
        \A xy \in RoomXY :
            WildcardRLERoomTerrain_get_xy(wild, xy) =
                IF IsCorner(xy) THEN "Wall"
                ELSE IF is_room_edge(xy) /\ SourceTerrain(xy) = "Swamp" THEN "Plain"
                ELSE SourceTerrain(xy)

C2_Witness ==
    /\ op = "WildcardRLERoomTerrain::new_from_uncompressed_terrain"
    /\ SourceTerrain([x |-> 0, y |-> 0]) = "Plain"
    /\ WildcardRLERoomTerrain_get_xy(wild, [x |-> 0, y |-> 0]) = "Wall"
    /\ SourceTerrain([x |-> 1, y |-> 0]) = "Swamp"
    /\ WildcardRLERoomTerrain_get_xy(wild, [x |-> 1, y |-> 0]) = "Plain"
    /\ \E xy \in RoomXY : is_room_edge(xy) /\ ~IsCorner(xy) /\ SourceTerrain(xy) = "Wall"

\* C3: at every non-corner position the wildcard codec built from a direct codec
\* returns the class the direct codec returns, except Plain for a Swamp on a room
\* edge; in particular a non-corner edge tile that is Wall in the source is Wall.
C3_WildcardFromCompressed ==
    op = "WildcardRLERoomTerrain::new_from_compressed_terrain" =>
        \A xy \in RoomXY :
            ~IsCorner(xy) =>
                WildcardRLERoomTerrain_get_xy(wild, xy) =
                    IF is_room_edge(xy) /\ CompressedRoomTerrain_get_xy(compressed, xy) = "Swamp"
                    THEN "Plain"
                    ELSE CompressedRoomTerrain_get_xy(compressed, xy)

\* C4 as stated: decoding the direct codec of any raw grid gives the grid back.
C4_Original ==
    op = "CompressedRoomTerrain::get_uncompressed_bits" => uncompressed = bits

\* C4 (amended): get_uncompressed_bits(new_from_uncompressed_bits(g)) has exactly
\* 2500 entries and entry i is the low two bits of g[i]; it equals g element for
\* element when every entry of g is in 0..3.
C4_RoundTripLowBits ==
    op = "CompressedRoomTerrain::get_uncompressed_bits" =>
        /\ DOMAIN uncompressed = 0..2499
        /\ \A i \in 0..2499 : uncompressed[i] = bits[i] % 4
        /\ RawInTerrainRange => uncompressed = bits

C4_Witness ==
    /\ op = "CompressedRoomTerrain::get_uncompressed_bits"
    /\ \E i \in 0..2499 : bits[i] > 3 /\ bits[i] % 4 # 0 /\ uncompressed[i] = bits[i] % 4
    /\ \E i \in 0..2499 : bits[i] = 3 /\ uncompressed[i] = 3

\* C5: the direct codec's get_xy returns, at every position (x, y), the class of
\* the low two bits of g[y*50 + x] under 0 -> Plain, 1 -> Wall, 2 -> Swamp,
\* 3 -> Wall (row-major addressing).
C5_DirectGetXY ==
    compressed # <<>> =>
        \A xy \in RoomXY :
            CompressedRoomTerrain_get_xy(compressed, xy) = SourceTerrain(xy)

\* a grid that differs from all-Plain only at linear index 1 is seen to differ at
\* (x=1, y=0) and nowhere else
C5_Witness ==
    /\ op = "CompressedRoomTerrain::new_from_uncompressed_bits"
    /\ bits[1] = 2
    /\ \A i \in 0..2499 : i # 1 => bits[i] = 0
    /\ CompressedRoomTerrain_get_xy(compressed, [x |-> 1, y |-> 0]) = "Swamp"
    /\ CompressedRoomTerrain_get_xy(compressed, [x |-> 0, y |-> 1]) = "Plain"

\* C6: byte i of the direct codec's array is ((g[4i]&3)<<6) | ((g[4i+1]&3)<<4) |
\* ((g[4i+2]&3)<<2) | (g[4i+3]&3); the array has exactly 625 bytes, and the bits
\* of the raw input above the low two do not influence it.
C6_DirectByteLayout ==
    compressed # <<>> =>
        /\ DOMAIN compressed = 0..624
        /\ \A i \in 0..624 :
              compressed[i] = (bits[4 * i] % 4) * 64 + (bits[4 * i + 1] % 4) * 16
                              + (bits[4 * i + 2] % 4) * 4 + (bits[4 * i + 3] % 4)
        /\ compressed = new_from_uncompressed_bits([i \in 0..2499 |-> bits[i] % 4])

C6_Witness ==
    /\ op = "CompressedRoomTerrain::new_from_uncompressed_bits"
    /\ bits[0] = 3 /\ bits[1] = 2 /\ bits[2] = 5 /\ bits[3] = 3
    /\ compressed[0] = 231

----------------------------------------------------------------------------
(* Inputs and operations of the edge codec *)

TerrainOfTag(n) == CASE n = 0 -> "Plain" [] n = 1 -> "Wall" [] n = 2 -> "Swamp"

\* tile i of pattern k: all Plain, all Wall, all Swamp, then Plain/Wall/Swamp
\* in turn in stretches of k - 2 tiles
EdgeTile(k, i) ==
    IF k < 3 THEN TerrainOfTag(k) ELSE TerrainOfTag((i \div (k - 2)) % 3)

EdgeSlice(k, len) == [i \in 1..len |-> EdgeTile(k, i - 1)]

RAW_STRIDE == 37
RawSeeds == {0, 1, 128, 170, 255}
RawBytes(a, b) == [j \in 0..23 |-> (a + RAW_STRIDE * b * j) % 256]

NoTerrainInput ==
    /\ bits = <<>>
    /\ compressed = <<>>
    /\ uncompressed = <<>>
    /\ rle = <<>>
    /\ packed = <<>>
    /\ wild = NoWild

InitEdge ==
    /\ NoTerrainInput
    /\ edge = NoEdge
    /\ exits_data = NoExitsData
    /\ args = NoCall
    /\ ret = NoCall
    /\ \/ /\ op = "input slices"
          /\ raw = <<>>
          /\ \E pt \in 0..MaxEdgePattern, pr \in 0..MaxEdgePattern,
                pb \in 0..MaxEdgePattern, pl \in 0..MaxEdgePattern,
                dt \in (0 - MaxLenDelta)..MaxLenDelta, dr \in (0 - MaxLenDelta)..MaxLenDelta,
                db \in (0 - MaxLenDelta)..MaxLenDelta, dl \in (0 - MaxLenDelta)..MaxLenDelta :
                /\ (dt = 0 /\ dr = 0 /\ db = 0 /\ dl = 0) \/ (pt = pr /\ pr = pb /\ pb = pl)
                /\ top = EdgeSlice(pt, 50 + dt)
                /\ right = EdgeSlice(pr, 50 + dr)
                /\ bottom = EdgeSlice(pb, 50 + db)
                /\ left = EdgeSlice(pl, 50 + dl)
       \/ /\ op = "input raw bytes"
          /\ top = <<>> /\ right = <<>> /\ bottom = <<>> /\ left = <<>>
          /\ \E a \in RawSeeds, b \in 0..MaxRawStep : raw = RawBytes(a, b)

TerrainVars == <<bits, compressed, uncompressed, rle, packed, wild>>

\* an array [Terrain; 50] as the slice &terrain[..]
array_to_slice(arr) == [i \in 1..50 |-> arr[i - 1]]

\* the four edges of an instance, decoded to be handed to new_from_terrain_slices
GetEdgeTerrains ==
    /\ op = "RoomEdgeTerrain::new_from_raw_bytes"
    /\ top' = array_to_slice(get_top_edge_terrain(edge.data))
    /\ right' = array_to_slice(get_right_edge_terrain(edge.data))
    /\ bottom' = array_to_slice(get_bottom_edge_terrain(edge.data))
    /\ left' = array_to_slice(get_left_edge_terrain(edge.data))
    /\ op' = "RoomEdgeTerrain::get_edge_terrain"
    /\ UNCHANGED <<TerrainVars, raw, edge, exits_data, CallVars>>

NewFromTerrainSlices ==
    /\ op \in {"input slices", "RoomEdgeTerrain::get_edge_terrain"}
    /\ edge' = new_from_terrain_slices(top, right, bottom, left)
    /\ op' = "RoomEdgeTerrain::new_from_terrain_slices"
    /\ UNCHANGED <<TerrainVars, top, right, bottom, left, raw, exits_data, CallVars>>

NewFromRawBytes ==
    /\ op = "input raw bytes"
    /\ edge' = Ok(new_from_raw_bytes(raw))
    /\ op' = "RoomEdgeTerrain::new_from_raw_bytes"
    /\ UNCHANGED <<TerrainVars, top, right, bottom, left, raw, exits_data, CallVars>>

NextEdge ==
    \/ NewFromTerrainSlices
    \/ NewFromRawBytes
    \/ GetEdgeTerrains

SpecEdge == InitEdge /\ [][NextEdge]_vars

----------------------------------------------------------------------------
(* Properties of the edge codec, checked under SpecEdge *)

SliceOfError(e) ==
    CASE e = "TopEdgeNotLength50" -> top
      [] e = "RightEdgeNotLength50" -> right
      [] e = "BottomEdgeNotLength50" -> bottom
      [] e = "LeftEdgeNotLength50" -> left

\* C7: new_from_terrain_slices returns Ok exactly when all four slices have
\* length 50; otherwise it returns the length error of an edge whose slice is not
\* 50 long and produces no instance; a top edge of another length always gives
\* TopEdgeNotLength50, whatever the other three slices are.
C7_SliceLengthErrors ==
    op = "RoomEdgeTerrain::new_from_terrain_slices" =>
        /\ edge.tag \in {"Ok", "Err"}
        /\ edge.tag = "Ok" <=>
              (Len(top) = 50 /\ Len(right) = 50 /\ Len(bottom) = 50 /\ Len(left) = 50)
        /\ edge.tag = "Err" =>
              /\ edge.err \in EdgeErrors
              /\ Len(SliceOfError(edge.err)) # 50
              /\ "data" \notin DOMAIN edge
        /\ Len(top) # 50 => (edge.tag = "Err" /\ edge.err = "TopEdgeNotLength50")

C7_Witness ==
    /\ op = "RoomEdgeTerrain::new_from_terrain_slices"
    /\ Len(top) = 49 /\ Len(right) = 51 /\ Len(bottom) = 50 /\ Len(left) = 49
    /\ edge = Err("TopEdgeNotLength50")

EdgeBuilt ==
    /\ op \in {"RoomEdgeTerrain::new_from_terrain_slices", "RoomEdgeTerrain::new_from_raw_bytes"}
    /\ edge.tag = "Ok"

\* bit k, counted from the most significant, of a byte
BitMSB(byte, k) == (byte \div (2 ^ (7 - k))) % 2

\* C8: get_xy of a 24-byte edge codec returns Some(Wall) at the four corners,
\* None at every non-edge position, and at a non-corner edge position with offset
\* e (x on top and bottom, y on left and right) Some(Wall) if bit 7-((e-1)%8) of
\* byte (e-1)/8 of that edge's chunk is 1 and Some(Plain) if it is 0.
C8_EdgeGetXY ==
    EdgeBuilt =>
        \A xy \in RoomXY :
            RoomEdgeTerrain_get_xy(edge.data, xy) =
                IF xy.x \in {0, 49} /\ xy.y \in {0, 49} THEN "Wall"
                ELSE IF xy.x \notin {0, 49} /\ xy.y \notin {0, 49} THEN None
                ELSE LET e == IF xy.y \in {0, 49} THEN xy.x ELSE xy.y
                         chunk == CASE xy.y = 0 -> 0 [] xy.x = 49 -> 6
                                    [] xy.y = 49 -> 12 [] xy.x = 0 -> 18
                         byte == edge.data[chunk + ((e - 1) \div 8)]
                     IN  IF (byte \div (2 ^ (7 - ((e - 1) % 8)))) % 2 = 1 THEN "Wall" ELSE "Plain"

C8_Witness ==
    /\ op = "RoomEdgeTerrain::new_from_raw_bytes"
    /\ edge.data[0] = 1 /\ edge.data[1] = 38
    /\ RoomEdgeTerrain_get_xy(edge.data, [x |-> 8, y |-> 0]) = "Wall"
    /\ RoomEdgeTerrain_get_xy(edge.data, [x |-> 7, y |-> 0]) = "Plain"
    /\ RoomEdgeTerrain_get_xy(edge.data, [x |-> 9, y |-> 0]) = "Plain"
    /\ RoomEdgeTerrain_get_xy(edge.data, [x |-> 25, y |-> 25]) = None

\* what an edge decodes to: Wall at 0 and 49, Wall for an input Wall, else Plain
DecodedEdgeOf(slice) ==
    [i \in 0..49 |-> IF i = 0 \/ i = 49 \/ slice[i + 1] = "Wall" THEN "Wall" ELSE "Plain"]

\* C9: each edge decoded from the codec built from four 50-tile edges has 50
\* tiles, Wall at positions 0 and 49 whatever the input, and at 1..48 Wall where
\* the input tile of that same edge is Wall and Plain otherwise (Swamp becomes
\* Plain); it depends on that edge's input only.
C9_EdgeDecode ==
    (op = "RoomEdgeTerrain::new_from_terrain_slices" /\ edge.tag = "Ok") =>
        /\ get_top_edge_terrain(edge.data) = DecodedEdgeOf(top)
        /\ get_right_edge_terrain(edge.data) = DecodedEdgeOf(right)
        /\ get_bottom_edge_terrain(edge.data) = DecodedEdgeOf(bottom)
        /\ get_left_edge_terrain(edge.data) = DecodedEdgeOf(left)

C9_Witness ==
    /\ op = "RoomEdgeTerrain::new_from_terrain_slices" /\ edge.tag = "Ok"
    /\ top[1] = "Plain" /\ top[3] = "Swamp" /\ top[2] = "Wall"
    /\ get_top_edge_terrain(edge.data)[0] = "Wall"
    /\ get_top_edge_terrain(edge.data)[2] = "Plain"
    /\ get_top_edge_terrain(edge.data)[1] = "Wall"
    /\ right[50] = "Swamp" /\ get_right_edge_terrain(edge.data)[49] = "Wall"
    /\ bottom # top /\ left # top /\ left # right

EdgeSlices == <<top, right, bottom, left>>

\* C10: the 24 bytes of new_from_terrain_slices are four 6-byte chunks in the
\* order top, right, bottom, left; bit k (most significant first) of byte j of a
\* chunk is 1 exactly when the input tile at offset 8j+k+1 of that edge is Wall.
C10_EdgeByteLayout ==
    (op = "RoomEdgeTerrain::new_from_terrain_slices" /\ edge.tag = "Ok") =>
        /\ DOMAIN edge.data = 0..23
        /\ \A c \in 0..3, j \in 0..5 :
              /\ edge.data[6 * c + j] \in 0..255
              /\ \A k \in 0..7 :
                    BitMSB(edge.data[6 * c + j], k) =
                        IF EdgeSlices[c + 1][(8 * j + k + 1) + 1] = "Wall" THEN 1 ELSE 0

C10_Witness ==
    /\ op = "RoomEdgeTerrain::new_from_terrain_slices" /\ edge.tag = "Ok"
    /\ \A i \in 1..50 : top[i] = "Plain" /\ right[i] = "Wall" /\ bottom[i] = "Swamp"
    /\ left[1] = "Plain" /\ left[2] = "Wall" /\ left[3] = "Swamp"
    /\ \A j \in 0..5 : edge.data[j] = 0 /\ edge.data[6 + j] = 255 /\ edge.data[12 + j] = 0
    /\ edge.data[18] = 146

----------------------------------------------------------------------------
(* The two run engines, BinarySearchRLE<Terrain, u16> in rle and            *)
(* BinarySearchPackedRoomTerrainRLE in packed, driven by the same calls     *)

START_MASK == 4095

MaxSmallStart == 2  \* starts are 0..MaxSmallStart and the values around START_MASK
MaxRuns == 3        \* calls with starts up to START_MASK stop at MaxRuns stored runs
MaxRunsAny == 2     \* calls with any u16 start stop at MaxRunsAny stored runs

InRangeStarts == (0..MaxSmallStart) \cup {START_MASK}

\* START_MASK + 1 sets bit 12 of the word, 3 * (START_MASK + 1) bits 12 and 13
Starts == InRangeStarts \cup {START_MASK + 1, 3 * (START_MASK + 1)}

NoReturn == [generic |-> None, packed |-> None, panic |-> FALSE]

\* a returned bool, as the text of its value
Returned(b) == IF b THEN "true" ELSE "false"

InitRuns ==
    /\ op = "new"
    /\ bits = <<>>
    /\ compressed = <<>>
    /\ uncompressed = <<>>
    /\ rle = <<>>
    /\ packed = <<>>
    /\ wild = NoWild
    /\ top = <<>> /\ right = <<>> /\ bottom = <<>> /\ left = <<>>
    /\ raw = <<>>
    /\ edge = NoEdge
    /\ exits_data = NoExitsData
    /\ args = NoCall
    /\ ret = NoReturn

OtherVars == <<bits, compressed, uncompressed, wild, EdgeVars>>

AppendRunFrom(S, cap) ==
    /\ ~ret.panic
    /\ \E token \in Terrains, start \in S :
          LET g == append_run(rle, IndexedRLE_new(token, start))
              p == packed_append_run(packed, RoomTerrainPackedIndexedRLE_new(token, start))
          IN  /\ Len(g.vec) <= cap /\ Len(p.vec) <= cap
              /\ rle' = g.vec
              /\ packed' = p.vec
              /\ args' = [token |-> token, start |-> start]
              /\ ret' = [generic |-> Returned(g.ret),
                         packed |-> IF p.panic THEN Panic ELSE Returned(p.ret),
                         panic |-> p.panic]
    /\ op' = "append_run"
    /\ UNCHANGED OtherVars

AppendTokenFrom(S, cap) ==
    /\ ~ret.panic
    /\ \E token \in Terrains, start \in S :
          LET g == append_token(rle, token, start)
              p == packed_append_token(packed, token, start)
          IN  /\ Len(g.vec) <= cap /\ Len(p.vec) <= cap
              /\ rle' = g.vec
              /\ packed' = p.vec
              /\ args' = [token |-> token, start |-> start]
              /\ ret' = [generic |-> Returned(g.ret),
                         packed |-> IF p.panic THEN Panic ELSE Returned(p.ret),
                         panic |-> p.panic]
    /\ op' = "append_token"
    /\ UNCHANGED OtherVars

FindTokenAtIndexFrom(S) ==
    /\ ~ret.panic
    /\ \E index \in S :
          /\ args' = [index |-> index]
          /\ ret' = [generic |-> find_token_at_index(rle, index),
                     packed |-> packed_find_token_at_index(packed, index),
                     panic |-> packed_find_token_at_index(packed, index) = Panic]
    /\ op' = "find_token_at_index"
    /\ UNCHANGED <<rle, packed, OtherVars>>

LastToken ==
    /\ ~ret.panic
    /\ args' = NoCall
    /\ ret' = [generic |-> None, packed |-> last_token(packed),
               panic |-> last_token(packed) = Panic]
    /\ op' = "last_token"
    /\ UNCHANGED <<rle, packed, OtherVars>>

AppendRun == AppendRunFrom(Starts, MaxRunsAny)
AppendToken == AppendTokenFrom(Starts, MaxRunsAny)
FindTokenAtIndex == FindTokenAtIndexFrom(Starts)

NextRuns ==
    \/ AppendRun
    \/ AppendToken
    \/ FindTokenAtIndex
    \/ LastToken

\* any call with any u16 start
SpecRuns == InitRuns /\ [][NextRuns]_vars

AppendRunInRange == AppendRunFrom(InRangeStarts, MaxRuns)
AppendTokenInRange == AppendTokenFrom(InRangeStarts, MaxRuns)
FindTokenAtIndexInRange == FindTokenAtIndexFrom(InRangeStarts)

NextRunsInRange ==
    \/ AppendRunInRange
    \/ AppendTokenInRange
    \/ FindTokenAtIndexInRange
    \/ LastToken

\* calls whose starts and indices are in [0, START_MASK]
SpecRunsInRange == InitRuns /\ [][NextRunsInRange]_vars

----------------------------------------------------------------------------
(* Properties of the run engines *)

IsAppend(o) == o \in {"append_run", "append_token"}

\* the indices at, just below and just above the starts the calls use
QueryIndices == {i \in {s + d : s \in Starts, d \in {-1, 0, 1}} : i >= 0}
InRangeQueryIndices == {i \in QueryIndices : i <= START_MASK}

GenericTail == rle[Len(rle)]
PackedTail == packed[Len(packed)]

\* the append of the step on the generic engine is as the claim says
GenericAppendAsClaimed ==
    IF Len(rle) > 0 /\ args'.token = GenericTail.token /\ args'.start >= GenericTail.start
    THEN ret'.generic = "false" /\ num_runs(rle') = num_runs(rle)
    ELSE ret'.generic = "true" /\ num_runs(rle') = num_runs(rle) + 1

\* the same on the packed engine, whose tail run is read with terrain(), start()
PackedAppendAsClaimed ==
    /\ ~ret'.panic
    /\ IF Len(packed) > 0 /\ ~terrain_panics(PackedTail)
          /\ args'.token = packed_terrain(PackedTail) /\ args'.start >= packed_start(PackedTail)
       THEN ret'.packed = "false" /\ packed_num_runs(packed') = packed_num_runs(packed)
       ELSE ret'.packed = "true" /\ packed_num_runs(packed') = packed_num_runs(packed) + 1

\* C11 as stated: in both engines, for every candidate, append_run/append_token
\* returns false and leaves num_runs unchanged exactly when the sequence is not
\* empty, the candidate's token is the tail run's and its start is >= the tail
\* run's; in every other case it returns true and num_runs grows by one.
C11_Original ==
    [][IsAppend(op') => (GenericAppendAsClaimed /\ PackedAppendAsClaimed)]_vars

\* C11 (amended): the statement holds of BinarySearchRLE for every candidate, and
\* of BinarySearchPackedRoomTerrainRLE for every candidate whose start is in
\* [0, 4095] appended to a sequence whose stored words all carry a terrain tag.
C11_AppendMerges ==
    [][IsAppend(op') =>
          /\ GenericAppendAsClaimed
          /\ (args'.start <= START_MASK /\ \A i \in 1..Len(packed) : ~terrain_panics(packed[i]))
                => PackedAppendAsClaimed]_vars

\* a candidate with the tail's token and a later start was merged by both engines,
\* and the one stored run came from a call that returned true
C11_Witness ==
    /\ op = "append_token"
    /\ num_runs(rle) = 1 /\ packed_num_runs(packed) = 1
    /\ args.token = rle[1].token /\ args.start > rle[1].start
    /\ args.start <= START_MASK
    /\ ret.generic = "false" /\ ret.packed = "false"

StrictlyAscending(vec) == \A i \in 1..(Len(vec) - 1) : vec[i].start < vec[i + 1].start

Highest(S) == CHOOSE i \in S : \A j \in S : j <= i

\* the token of the latest run whose start is <= index
LatestRunToken(vec, index) ==
    LET at_or_before == {i \in 1..Len(vec) : vec[i].start <= index}
    IN  IF at_or_before = {} THEN None ELSE vec[Highest(at_or_before)].token

\* what the claim says find_token_at_index(index) returns
FindAsClaimed(vec, index) ==
    IF Len(vec) = 0 THEN None
    ELSE IF index < vec[1].start THEN None
    ELSE LatestRunToken(vec, index)

\* the runs of the claim's example
ExampleRuns ==
    <<[token |-> "true", start |-> 10], [token |-> "false", start |-> 14],
      [token |-> "true", start |-> 27], [token |-> "false", start |-> 29],
      [token |-> "true", start |-> 30]>>

ExampleAnswer(index) ==
    IF index < 10 THEN None
    ELSE IF index < 14 THEN "true"
    ELSE IF index < 27 THEN "false"
    ELSE IF index < 29 THEN "true"
    ELSE IF index < 30 THEN "false"
    ELSE "true"

\* C12: on a sequence whose stored starts are strictly ascending,
\* find_token_at_index(index) is None when the sequence is empty or index is below
\* the first start, and otherwise the token of the latest run whose start is
\* <= index, also at and beyond the last start; the runs true@10, false@14,
\* true@27, false@29, true@30 answer as the claim lists.
C12_FindToken ==
    /\ StrictlyAscending(rle) =>
          /\ \A index \in QueryIndices :
                find_token_at_index(rle, index) = FindAsClaimed(rle, index)
          /\ op = "find_token_at_index" => ret.generic = FindAsClaimed(rle, args.index)
    /\ \A index \in 0..52 : find_token_at_index(ExampleRuns, index) = ExampleAnswer(index)

\* a query strictly inside the middle run of three
C12_Witness ==
    /\ op = "find_token_at_index"
    /\ num_runs(rle) = 3 /\ StrictlyAscending(rle)
    /\ rle[1].start = 0 /\ rle[2].start = 1 /\ rle[3].start = START_MASK
    /\ args.index = 2
    /\ ret.generic = rle[2].token /\ ret.generic # rle[3].token
    /\ find_token_at_index(Tail(rle), 0) = None
    /\ find_token_at_index(rle, START_MASK + 1) = rle[3].token

\* a run sequence as the sequence of its (token, start) pairs
PackedRuns == [i \in 1..Len(packed) |->
                  [token |-> packed_terrain(packed[i]), start |-> packed_start(packed[i])]]

Ordered(vec) ==
    \A i \in 1..(Len(vec) - 1) :
        vec[i].start < vec[i + 1].start /\ vec[i].token # vec[i + 1].token

AtOrAfterAll(vec, start) == \A i \in 1..Len(vec) : start >= vec[i].start
AfterAll(vec, start) == \A i \in 1..Len(vec) : start > vec[i].start

\* C13 as stated: an append whose candidate's start is >= every start already
\* stored keeps the stored runs strictly ascending by start and without two
\* consecutive runs of the same token.
C13_Original ==
    [][IsAppend(op') =>
          /\ (Ordered(rle) /\ AtOrAfterAll(rle, args'.start)) => Ordered(rle')
          /\ (Ordered(PackedRuns) /\ AtOrAfterAll(PackedRuns, args'.start))
                => Ordered(PackedRuns')]_vars

\* whether the candidate of the step may be appended under the amended claim
AscendingCandidate(vec, token, start) ==
    \/ AfterAll(vec, start)
    \/ Len(vec) > 0 /\ token = vec[Len(vec)].token /\ AtOrAfterAll(vec, start)

\* C13 (amended): with starts in [0, 4095], an append whose candidate's start is
\* strictly greater than every start already stored, or is >= every start already
\* stored with the tail run's token, keeps the stored runs strictly ascending by
\* start and without two consecutive runs of the same token.
C13_AscendingAppendsStayOrdered ==
    [][IsAppend(op') =>
          /\ (Ordered(rle) /\ AscendingCandidate(rle, args'.token, args'.start))
                => Ordered(rle')
          /\ (Ordered(PackedRuns) /\ AscendingCandidate(PackedRuns, args'.token, args'.start))
                => Ordered(PackedRuns')]_vars

\* three stored runs in order after a merged candidate that repeats the last start
C13_Witness ==
    /\ op = "append_run"
    /\ num_runs(rle) = 3 /\ Ordered(rle)
    /\ packed_num_runs(packed) = 3 /\ Ordered(PackedRuns)
    /\ args.token = rle[3].token /\ args.start = rle[3].start
    /\ ret.generic = "false" /\ ret.packed = "false"

----------------------------------------------------------------------------
(* One packed run: RoomTerrainPackedIndexedRLE::new, then its accessors *)

MaxStartExcess == 1  \* starts are 0..START_MASK + MaxStartExcess

InitWord ==
    /\ op = "input run"
    /\ bits = <<>>
    /\ compressed = <<>>
    /\ uncompressed = <<>>
    /\ rle = <<>>
    /\ packed = <<>>
    /\ wild = NoWild
    /\ top = <<>> /\ right = <<>> /\ bottom = <<>> /\ left = <<>>
    /\ raw = <<>>
    /\ edge = NoEdge
    /\ exits_data = NoExitsData
    /\ \E terrain \in Terrains, start \in 0..(START_MASK + MaxStartExcess) :
          args = [terrain |-> terrain, start |-> start]
    /\ ret = NoCall

\* let rle = RoomTerrainPackedIndexedRLE::new(terrain, start)
NewPackedRun ==
    /\ op = "input run"
    /\ ret' = [packed |-> RoomTerrainPackedIndexedRLE_new(args.terrain, args.start)]
    /\ op' = "RoomTerrainPackedIndexedRLE::new"
    /\ UNCHANGED <<args, rle, packed, OtherVars>>

\* rle.packed_repr(), rle.terrain(), rle.start()
ReadPackedRun ==
    /\ op = "RoomTerrainPackedIndexedRLE::new"
    /\ ret' = [packed_repr |-> packed_repr(ret.packed),
               terrain |-> packed_terrain(ret.packed),
               start |-> packed_start(ret.packed)]
    /\ op' = "RoomTerrainPackedIndexedRLE accessors"
    /\ UNCHANGED <<args, rle, packed, OtherVars>>

NextWord ==
    \/ NewPackedRun
    \/ ReadPackedRun

SpecWord == InitWord /\ [][NextWord]_vars

TerrainTag(terrain) ==
    CASE terrain = "Plain" -> 0 [] terrain = "Wall" -> 1 [] terrain = "Swamp" -> 2

\* C14: for every terrain and every start in [0, 4095], the word built by
\* RoomTerrainPackedIndexedRLE::new has bits 15-14 equal to 0, bits 13-12 equal to
\* the tag (0 Plain, 1 Wall, 2 Swamp) and bits 11-0 equal to start, and terrain()
\* and start() return the terrain and the start the run was built from.
C14_PackedWordLayout ==
    args.start <= START_MASK =>
        /\ op = "RoomTerrainPackedIndexedRLE::new" =>
              /\ ret.packed \div 16384 = 0
              /\ (ret.packed \div 4096) % 4 = TerrainTag(args.terrain)
              /\ ret.packed % 4096 = args.start
        /\ op = "RoomTerrainPackedIndexedRLE accessors" =>
              /\ ret.packed_repr = TerrainTag(args.terrain) * 4096 + args.start
              /\ ret.terrain = args.terrain
              /\ ret.start = args.start

\* a Swamp run starting at the last room index
C14_Witness ==
    /\ op = "RoomTerrainPackedIndexedRLE accessors"
    /\ args = [terrain |-> "Swamp", start |-> ROOM_AREA - 1]
    /\ ret = [packed_repr |-> 10691, terrain |-> "Swamp", start |-> 2499]

----------------------------------------------------------------------------
(* Properties of the run codecs, checked under Spec *)

\* C15: the run sequence of a naive or packed run codec built by either
\* constructor has its first run at linear index 0, so find_token_at_index
\* returns Some for every index in [0, 2500) and get_xy never unwraps None.
C15_FirstRunAtZero ==
    /\ RLEBuilt =>
          /\ num_runs(rle) > 0 /\ rle[1].start = 0
          /\ \A idx \in 0..(ROOM_AREA - 1) : find_token_at_index(rle, idx) \in Terrains
          /\ \A xy \in RoomXY : RLERoomTerrain_get_xy(rle, xy) # Panic
    /\ PackedBuilt =>
          /\ packed_num_runs(packed) > 0 /\ packed_start(packed[1]) = 0
          /\ \A idx \in 0..(ROOM_AREA - 1) : packed_find_token_at_index(packed, idx) \in Terrains
          /\ \A xy \in RoomXY : PackedRLERoomTerrain_get_xy(packed, xy) # Panic

\* a naive codec of several runs answers at the first and at the last position
C15_Witness ==
    /\ op = "RLERoomTerrain::new_from_uncompressed_terrain"
    /\ num_runs(rle) > 2
    /\ rle[1].start = 0
    /\ find_token_at_index(rle, 0) = rle[1].token
    /\ RLERoomTerrain_get_xy(rle, [x |-> 49, y |-> 49]) = rle[num_runs(rle)].token

\* C17: memory_size of the packed run codec of a grid is at most memory_size of
\* the naive run codec of the same grid; each is the run count times the width
\* of a stored run (2 and 4 bytes) plus the 24 bytes of the Vec.
C17_PackedNotLarger ==
    op = "memory_size" =>
        /\ ret.rle_packed_size <= ret.rle_size
        /\ ret.rle_size = num_runs(rle) * 4 + 24
        /\ ret.rle_packed_size = packed_num_runs(packed) * 2 + 24
        /\ num_runs(rle) = packed_num_runs(packed)

C17_Witness ==
    /\ op = "memory_size"
    /\ num_runs(rle) = ROOM_AREA
    /\ ret.rle_size = 10024
    /\ ret.rle_packed_size = 5024

----------------------------------------------------------------------------
(* Properties of the run engines under calls with starts in [0, 4095] *)

\* C16: after every sequence of append calls with starts in [0, 4095] applied to
\* both engines, the last call returned the same boolean from both, num_runs is
\* the same, and find_token_at_index returns the same result at every index
\* (checked at and next to every start in use, where the answer can change).
C16_EnginesAgree ==
    /\ IsAppend(op) => (~ret.panic /\ ret.generic = ret.packed)
    /\ num_runs(rle) = packed_num_runs(packed)
    /\ \A index \in InRangeQueryIndices :
          find_token_at_index(rle, index) = packed_find_token_at_index(packed, index)
    /\ op = "find_token_at_index" => ret.generic = ret.packed

\* three runs stored out of ascending order, the last call pushed by both
\* engines, and a query that both answer with a stored token
C16_Witness ==
    /\ op = "append_token"
    /\ num_runs(rle) = 3 /\ packed_num_runs(packed) = 3
    /\ rle[2].start < rle[1].start
    /\ ret.generic = "true" /\ ret.packed = "true"
    /\ find_token_at_index(rle, START_MASK) \in Terrains
    /\ packed_find_token_at_index(packed, START_MASK) = find_token_at_index(rle, START_MASK)

\* C18: last_token returns None on an empty sequence and, on a sequence that
\* appends left non-empty, Some(terrain of the last stored run), without failing.
C18_LastToken ==
    op = "last_token" =>
        /\ ~ret.panic
        /\ ret.packed = IF packed_num_runs(packed) = 0 THEN None
                        ELSE packed_terrain(packed[Len(packed)])

----------------------------------------------------------------------------
(* Re-encoding decoded edges, checked under SpecEdge *)

RawChunk(c) == [j \in 0..5 |-> raw[6 * c + j]]

\* C19: re-encoding the 50-tile edge decoded from a 6-byte chunk gives the chunk
\* again (each of its bytes is decoded and encoded on its own, and every byte
\* value comes back), and new_from_terrain_slices applied to the four edges
\* decoded from new_from_raw_bytes(d) returns an instance whose get_raw_bytes is d.
C19_EdgeReencode ==
    (op = "RoomEdgeTerrain::new_from_terrain_slices" /\ raw # <<>>) =>
        /\ edge.tag = "Ok"
        /\ get_raw_bytes(edge.data) = raw
        /\ \A c \in 0..3 :
              copy_edge_terrain_to_byte_slice(get_edge_terrain_from_bytes(RawChunk(c))) = RawChunk(c)
        /\ \A byte \in 0..255 : get_byte_from_terrain(copy_terrain_from_byte(byte)) = byte

\* bytes that differ from one another, through decode and back
C19_Witness ==
    /\ op = "RoomEdgeTerrain::new_from_terrain_slices"
    /\ raw # <<>>
    /\ raw[0] = 1 /\ raw[1] = 38 /\ raw[23] = 84
    /\ top[1] = "Wall" /\ top[8] = "Plain" /\ top[9] = "Wall" /\ top[10] = "Plain"
    /\ get_raw_bytes(edge.data) = raw

----------------------------------------------------------------------------
(* RoomExit: one u16 per exit, layout 0LLLLLLDDDPPPPPP *)

EXIT_DIRECTION_OFFSET == 6
LENGTH_OFFSET == 9
START_POSITION_BITMASK == 63
EXIT_DIRECTION_BITMASK == 448
EXIT_DIRECTION_INVERTED_BITMASK == 32319

ExitDirections == {"Top", "Right", "Bottom", "Left"}

\* direction as u16
ExitDirection_as_u16(direction) ==
    CASE direction = "Top" -> 1
      [] direction = "Right" -> 3
      [] direction = "Bottom" -> 5
      [] direction = "Left" -> 7

get_packed_from_parameters(start, length, direction) ==
    LET direction_val == ExitDirection_as_u16(direction)
    IN  BitOr(BitOr(Shl16(length, LENGTH_OFFSET), Shl16(direction_val, EXIT_DIRECTION_OFFSET)),
              start)

RoomExit_new(start, length, direction) == get_packed_from_parameters(start, length, direction)

new_from_packed_unsanitized(p) == p

new_from_packed(p) ==
    LET dir_bits == Shr(BitAnd(p, EXIT_DIRECTION_BITMASK), EXIT_DIRECTION_OFFSET)
    IN  IF dir_bits \in {1, 3, 5, 7} THEN p
        ELSE BitOr(BitAnd(p, EXIT_DIRECTION_INVERTED_BITMASK),
                   Shl16(ExitDirection_as_u16("Top"), EXIT_DIRECTION_OFFSET))

RoomExit_packed(p) == p

RoomExit_start(p) == BitAnd(p, START_POSITION_BITMASK) % 256

RoomExit_len_direction_offset(p) == Shr(p, EXIT_DIRECTION_OFFSET) % 256

RoomExit_len(p) == Shr(p, LENGTH_OFFSET) % 256

saturating_add(a, b) == IF a + b > 255 THEN 255 ELSE a + b
saturating_sub(a, b) == IF a - b < 0 THEN 0 ELSE a - b

RoomExit_end(p) == saturating_sub(saturating_add(RoomExit_start(p), RoomExit_len(p)), 1)

exit_direction(p) ==
    LET val == Shr(BitAnd(p, EXIT_DIRECTION_BITMASK), EXIT_DIRECTION_OFFSET)
    IN  CASE val = 1 -> "Top"
          [] val = 3 -> "Right"
          [] val = 5 -> "Bottom"
          [] val = 7 -> "Left"
          [] OTHER -> Panic

\* one iteration of for i in 0..50 over (exits, current_exit_start,
\* current_exit_length)
exit_step(w, terrain, direction, i) ==
    IF terrain[i] = "Wall"
    THEN IF w.length > 0
         THEN [exits |-> Append(w.exits, RoomExit_new(w.start, w.length, direction)),
               start |-> 0, length |-> 0]
         ELSE w
    ELSE LET is_new_exit == IF i = 0 THEN TRUE ELSE terrain[i - 1] = "Wall"
         IN  IF is_new_exit
             THEN [w EXCEPT !.start = i % 256, !.length = 1]
             ELSE [w EXCEPT !.length = (w.length + 1) % 256]

RECURSIVE exit_walk(_, _, _, _)
exit_walk(w, terrain, direction, i) ==
    IF i >= 50 THEN w
    ELSE LET next == exit_step(w, terrain, direction, i)
         IN  IF next = next THEN exit_walk(next, terrain, direction, i + 1) ELSE next

get_exits_from_single_edge_no_final_exit(terrain, direction) ==
    exit_walk([exits |-> <<>>, start |-> 0, length |-> 0], terrain, direction, 0).exits

\* terrain: [Terrain; 50], indices 0..49
get_exits_from_single_edge(terrain, direction) ==
    LET w == exit_walk([exits |-> <<>>, start |-> 0, length |-> 0], terrain, direction, 0)
    IN  IF w.length > 0
        THEN Append(w.exits, RoomExit_new(w.start, w.length, direction))
        ELSE w.exits

----------------------------------------------------------------------------
(* Inputs and operations of RoomExit: an edge is cut into stretches at fixed *)
(* places, each stretch all Wall or open (Plain and Swamp in turn)           *)

MaxEdgeShift == 1   \* the inner cuts are moved right by 0..MaxEdgeShift tiles

EdgeCuts(shift) == <<0, 1 + shift, 5 + shift, 10 + shift, 23 + shift, 25 + shift, 49, 50>>

\* the stretch of tile i: the last cut at or before i
StretchOf(shift, i) ==
    Highest({k \in 1..7 : EdgeCuts(shift)[k] <= i})

CutEdge(shift, walls) ==
    [i \in 0..49 |->
        IF StretchOf(shift, i) \in walls THEN "Wall"
        ELSE IF i % 2 = 0 THEN "Plain" ELSE "Swamp"]

InitExit ==
    /\ op = "input edge"
    /\ bits = <<>>
    /\ compressed = <<>>
    /\ uncompressed = <<>>
    /\ rle = <<>>
    /\ packed = <<>>
    /\ wild = NoWild
    /\ top = <<>> /\ right = <<>> /\ bottom = <<>> /\ left = <<>>
    /\ raw = <<>>
    /\ edge = NoEdge
    /\ exits_data = NoExitsData
    /\ \E shift \in 0..MaxEdgeShift, walls \in SUBSET (1..7), direction \in ExitDirections :
          args = [terrain |-> CutEdge(shift, walls), direction |-> direction]
    /\ ret = NoCall

GetExitsFromSingleEdge ==
    /\ op = "input edge"
    /\ ret' = [exits |-> get_exits_from_single_edge(args.terrain, args.direction)]
    /\ op' = "RoomExit::get_exits_from_single_edge"
    /\ UNCHANGED <<args, rle, packed, OtherVars>>

NextExit ==
    \/ GetExitsFromSingleEdge

SpecExit == InitExit /\ [][NextExit]_vars

----------------------------------------------------------------------------
(* Properties of RoomExit, checked under SpecExit *)

\* the first tiles of the maximal stretches of non-Wall tiles of an edge
SpanStarts(terrain) ==
    {a \in 0..49 : terrain[a] # "Wall" /\ (a = 0 \/ terrain[a - 1] = "Wall")}

\* the last tile of the maximal stretch of non-Wall tiles that starts at a
SpanEnd(terrain, a) ==
    CHOOSE b \in a..49 :
        /\ \A i \in a..b : terrain[i] # "Wall"
        /\ b = 49 \/ terrain[b + 1] = "Wall"

\* C20: get_exits_from_single_edge returns, in ascending start order, exactly one
\* exit for each maximal stretch of non-Wall tiles of the edge, with start the
\* stretch's first index, len its size and end its last index, each carrying the
\* given direction; an edge of Walls gives no exit and a stretch that reaches
\* index 49 is reported.
C20_ExitsFromSingleEdge ==
    op = "RoomExit::get_exits_from_single_edge" =>
        LET terrain == args.terrain
            exits == ret.exits
        IN  /\ Len(exits) = Cardinality(SpanStarts(terrain))
            /\ {RoomExit_start(exits[k]) : k \in 1..Len(exits)} = SpanStarts(terrain)
            /\ \A k \in 1..(Len(exits) - 1) :
                  RoomExit_start(exits[k]) < RoomExit_start(exits[k + 1])
            /\ \A k \in 1..Len(exits) :
                  /\ RoomExit_end(exits[k]) = SpanEnd(terrain, RoomExit_start(exits[k]))
                  /\ RoomExit_len(exits[k]) = RoomExit_end(exits[k]) - RoomExit_start(exits[k]) + 1
                  /\ exit_direction(exits[k]) = args.direction
            /\ (\A i \in 0..49 : terrain[i] = "Wall") => exits = <<>>
            /\ terrain[49] # "Wall" =>
                  (Len(exits) > 0 /\ RoomExit_end(exits[Len(exits)]) = 49)

\* three exits on a left edge, the last one open up to index 49
C20_Witness ==
    /\ op = "RoomExit::get_exits_from_single_edge"
    /\ args.direction = "Left"
    /\ Len(ret.exits) = 3
    /\ RoomExit_start(ret.exits[1]) = 1 /\ RoomExit_len(ret.exits[1]) = 4
    /\ RoomExit_start(ret.exits[2]) = 10 /\ RoomExit_end(ret.exits[2]) = 22
    /\ RoomExit_start(ret.exits[3]) = 25 /\ RoomExit_len(ret.exits[3]) = 25
    /\ RoomExit_end(ret.exits[3]) = 49
    /\ exit_direction(ret.exits[3]) = "Left"

----------------------------------------------------------------------------
(* RoomExitsData: the edge codec of a room and its four exit counts (the *)
(* room name plays no part in the exits and is left out)                 *)

RoomExitsData_new_from_compressed_edge_terrain_data(data) ==
    [data |-> data,
     num_top_exits |-> Len(get_exits_from_single_edge(get_top_edge_terrain(data), "Top")),
     num_right_exits |-> Len(get_exits_from_single_edge(get_right_edge_terrain(data), "Right")),
     num_bottom_exits |-> Len(get_exits_from_single_edge(get_bottom_edge_terrain(data), "Bottom")),
     num_left_exits |-> Len(get_exits_from_single_edge(get_left_edge_terrain(data), "Left"))]

top_edge_exits(self) == get_exits_from_single_edge(get_top_edge_terrain(self.data), "Top")
right_edge_exits(self) == get_exits_from_single_edge(get_right_edge_terrain(self.data), "Right")
bottom_edge_exits(self) == get_exits_from_single_edge(get_bottom_edge_terrain(self.data), "Bottom")
left_edge_exits(self) == get_exits_from_single_edge(get_left_edge_terrain(self.data), "Left")

\* Option<RoomExit>: None is <<>>, Some(exit) is <<exit>>
NoExit == <<>>
SomeExit(e) == <<e>>

\* exits.get(local_index).copied()
exits_get(vec, local_index) ==
    IF local_index >= 0 /\ local_index < Len(vec) THEN SomeExit(vec[local_index + 1]) ELSE NoExit

get_exit_by_index_right_after_top(self, index) ==
    LET total_num_exits == self.num_top_exits + self.num_right_exits
                           + self.num_bottom_exits + self.num_left_exits
        min_idx_top == 0
        max_idx_top == IF self.num_top_exits > 0 THEN min_idx_top + self.num_top_exits - 1
                       ELSE min_idx_top
        min_idx_right == max_idx_top + 1
        max_idx_right == IF self.num_right_exits > 0 THEN min_idx_right + self.num_right_exits - 1
                         ELSE min_idx_right
        min_idx_bottom == IF self.num_right_exits > 0 THEN max_idx_right + 1 ELSE max_idx_right
        max_idx_bottom == IF self.num_bottom_exits > 0 THEN min_idx_bottom + self.num_bottom_exits - 1
                          ELSE min_idx_bottom
        min_idx_left == IF self.num_bottom_exits > 0 THEN max_idx_bottom + 1 ELSE max_idx_bottom
        max_idx_left == IF self.num_left_exits > 0 THEN min_idx_left + self.num_left_exits - 1
                        ELSE min_idx_left
    IN  IF total_num_exits = 0 THEN NoExit
        ELSE IF index > total_num_exits - 1 THEN NoExit
        ELSE IF self.num_top_exits > 0 /\ index <= max_idx_top
             THEN exits_get(top_edge_exits(self), index - min_idx_top)
        ELSE IF self.num_right_exits > 0 /\ index <= max_idx_right
             THEN exits_get(right_edge_exits(self), index - min_idx_right)
        ELSE IF self.num_bottom_exits > 0 /\ index <= max_idx_bottom
             THEN exits_get(bottom_edge_exits(self), index - min_idx_bottom)
        ELSE IF self.num_left_exits > 0 /\ index <= max_idx_left
             THEN exits_get(left_edge_exits(self), index - min_idx_left)
        ELSE NoExit

get_exit_by_index(self, index) ==
    LET total_num_exits == self.num_top_exits + self.num_right_exits
                           + self.num_bottom_exits + self.num_left_exits
        min_idx_top == 0
        max_idx_top == IF self.num_top_exits > 0 THEN min_idx_top + self.num_top_exits - 1
                       ELSE min_idx_top
        min_idx_right == IF self.num_top_exits > 0 THEN max_idx_top + 1 ELSE max_idx_top
        max_idx_right == IF self.num_right_exits > 0 THEN min_idx_right + self.num_right_exits - 1
                         ELSE min_idx_right
        min_idx_bottom == IF self.num_right_exits > 0 THEN max_idx_right + 1 ELSE max_idx_right
        max_idx_bottom == IF self.num_bottom_exits > 0 THEN min_idx_bottom + self.num_bottom_exits - 1
                          ELSE min_idx_bottom
        min_idx_left == IF self.num_bottom_exits > 0 THEN max_idx_bottom + 1 ELSE max_idx_bottom
        max_idx_left == IF self.num_left_exits > 0 THEN min_idx_left + self.num_left_exits - 1
                        ELSE min_idx_left
    IN  IF total_num_exits = 0 THEN NoExit
        ELSE IF index > total_num_exits - 1 THEN NoExit
        ELSE IF self.num_top_exits > 0 /\ index <= max_idx_top
             THEN exits_get(top_edge_exits(self), index - min_idx_top)
        ELSE IF self.num_right_exits > 0 /\ index <= max_idx_right
             THEN exits_get(right_edge_exits(self), index - min_idx_right)
        ELSE IF self.num_bottom_exits > 0 /\ index <= max_idx_bottom
             THEN exits_get(bottom_edge_exits(self), index - min_idx_bottom)
        ELSE IF self.num_left_exits > 0 /\ index <= max_idx_left
             THEN exits_get(left_edge_exits(self), index - min_idx_left)
        ELSE NoExit

----------------------------------------------------------------------------
(* Inputs and operations of RoomExitsData: each edge carries 0..MaxExitsPerEdge *)
(* exits, open stretches of EXIT_WIDTH tiles every EXIT_PITCH tiles             *)

MaxExitsPerEdge == 3
EXIT_WIDTH == 3
EXIT_PITCH == 6

OpenTile(n, shift, i) ==
    /\ i >= shift
    /\ (i - shift) % EXIT_PITCH < EXIT_WIDTH
    /\ (i - shift) \div EXIT_PITCH < n

\* n exits, the first at index shift; mirrored, the last one ends at index 49 - shift
GapEdge(n, shift, mirror) ==
    [k \in 1..50 |->
        LET i == IF mirror THEN 50 - k ELSE k - 1
        IN  IF ~OpenTile(n, shift, i) THEN "Wall"
            ELSE IF i % 2 = 0 THEN "Plain" ELSE "Swamp"]

InitExitsData ==
    /\ op = "input slices"
    /\ NoTerrainInput
    /\ raw = <<>>
    /\ edge = NoEdge
    /\ exits_data = NoExitsData
    /\ args = NoCall
    /\ ret = NoCall
    /\ \E nt \in 0..MaxExitsPerEdge, nr \in 0..MaxExitsPerEdge,
          nb \in 0..MaxExitsPerEdge, nl \in 0..MaxExitsPerEdge :
          /\ top = GapEdge(nt, 0, FALSE)
          /\ right = GapEdge(nr, 1, FALSE)
          /\ bottom = GapEdge(nb, 2, FALSE)
          /\ left = GapEdge(nl, 0, TRUE)

NewFromCompressedEdgeTerrainData ==
    /\ op = "RoomEdgeTerrain::new_from_terrain_slices"
    /\ edge.tag = "Ok"
    /\ exits_data' = RoomExitsData_new_from_compressed_edge_terrain_data(edge.data)
    /\ op' = "RoomExitsData::new_from_compressed_edge_terrain_data"
    /\ UNCHANGED <<TerrainVars, top, right, bottom, left, raw, edge, CallVars>>

GetExitByIndex ==
    /\ op \in {"RoomExitsData::new_from_compressed_edge_terrain_data",
               "RoomExitsData::get_exit_by_index"}
    /\ \E index \in 0..(4 * MaxExitsPerEdge + 1) :
          /\ args' = [index |-> index]
          /\ ret' = [exit |-> get_exit_by_index(exits_data, index)]
    /\ op' = "RoomExitsData::get_exit_by_index"
    /\ UNCHANGED <<TerrainVars, EdgeVars>>

NextExitsData ==
    \/ NewFromTerrainSlices
    \/ NewFromCompressedEdgeTerrainData
    \/ GetExitByIndex

SpecExitsData == InitExitsData /\ [][NextExitsData]_vars

----------------------------------------------------------------------------
(* Properties of RoomExitsData, checked under SpecExitsData *)

\* a slice handed to the edge codec as the codec gives it back: the corners
\* (index 0 and 49) are not stored and read as Wall
AsStored(slice) == [i \in 0..49 |-> IF i = 0 \/ i = 49 THEN "Wall" ELSE slice[i + 1]]

\* the exits of the four edges handed to the edge codec, top, right, bottom, left
AllExits ==
    get_exits_from_single_edge(AsStored(top), "Top")
    \o get_exits_from_single_edge(AsStored(right), "Right")
    \o get_exits_from_single_edge(AsStored(bottom), "Bottom")
    \o get_exits_from_single_edge(AsStored(left), "Left")

\* C21: get_exit_by_index(i) of a RoomExitsData built from edge terrain is the
\* i-th element (from zero) of the top, right, bottom and left exits put one after
\* the other, each list in ascending start order, when i is below the total number
\* of exits, and None otherwise, whichever edges are empty.
C21_ExitByIndex ==
    op = "RoomExitsData::get_exit_by_index" =>
        /\ AllExits = top_edge_exits(exits_data) \o right_edge_exits(exits_data)
                      \o bottom_edge_exits(exits_data) \o left_edge_exits(exits_data)
        /\ \A k \in 1..(Len(AllExits) - 1) :
              exit_direction(AllExits[k]) = exit_direction(AllExits[k + 1])
                  => RoomExit_start(AllExits[k]) < RoomExit_start(AllExits[k + 1])
        /\ ret.exit = IF args.index < Len(AllExits)
                      THEN SomeExit(AllExits[args.index + 1])
                      ELSE NoExit

\* no top exit, two right exits, none at the bottom, one on the left: index 2 is
\* the left exit, index 3 is past the end
C21_Witness ==
    /\ op = "RoomExitsData::get_exit_by_index"
    /\ exits_data.num_top_exits = 0 /\ exits_data.num_right_exits = 2
    /\ exits_data.num_bottom_exits = 0 /\ exits_data.num_left_exits = 1
    /\ args.index = 2
    /\ ret.exit # NoExit
    /\ exit_direction(ret.exit[1]) = "Left"
    /\ RoomExit_start(ret.exit[1]) = 47 /\ RoomExit_end(ret.exit[1]) = 48
    /\ get_exit_by_index(exits_data, 3) = NoExit
    /\ exit_direction(get_exit_by_index(exits_data, 0)[1]) = "Right"
    /\ RoomExit_start(get_exit_by_index(exits_data, 1)[1]) = 7

----------------------------------------------------------------------------
(* Inputs and operations of one RoomExit: built from parameters (u8 start and *)
(* length, a direction) or from any u16 word                                  *)

MaxParamExcess == 15  \* start goes up to 49 + MaxParamExcess, length to 50 + MaxParamExcess
U16_MAX == 65535

InitRoomExit ==
    /\ NoTerrainInput
    /\ top = <<>> /\ right = <<>> /\ bottom = <<>> /\ left = <<>>
    /\ raw = <<>>
    /\ edge = NoEdge
    /\ exits_data = NoExitsData
    /\ ret = NoCall
    /\ \/ /\ op = "input parameters"
          /\ \E start \in 0..(49 + MaxParamExcess), length \in 0..(50 + MaxParamExcess),
                direction \in ExitDirections :
                args = [start |-> start, length |-> length, direction |-> direction]
       \/ /\ op = "input packed"
          /\ \E word \in 0..U16_MAX : args = [packed |-> word]

RoomExitNew ==
    /\ op = "input parameters"
    /\ ret' = [packed |-> RoomExit_new(args.start, args.length, args.direction)]
    /\ op' = "RoomExit::new"
    /\ UNCHANGED <<args, TerrainVars, EdgeVars>>

\* new_from_packed(word) on an input word, or new_from_packed(exit.packed()) on
\* the exit RoomExit::new returned
RoomExitNewFromPacked ==
    /\ \/ /\ op = "input packed"
          /\ ret' = [packed |-> new_from_packed(args.packed)]
       \/ /\ op = "RoomExit::new"
          /\ ret' = [packed |-> new_from_packed(RoomExit_packed(ret.packed))]
    /\ op' = "RoomExit::new_from_packed"
    /\ UNCHANGED <<args, TerrainVars, EdgeVars>>

NextRoomExit ==
    \/ RoomExitNew
    \/ RoomExitNewFromPacked

SpecRoomExit == InitRoomExit /\ [][NextRoomExit]_vars

----------------------------------------------------------------------------
(* Properties of one RoomExit, checked under SpecRoomExit *)

FromParameters == "start" \in DOMAIN args
FromWord == "packed" \in DOMAIN args

ParametersInRange ==
    /\ FromParameters
    /\ args.start \in 0..49
    /\ args.length >= 1
    /\ args.start + args.length <= 50

\* C22: for start in [0,49], length >= 1 with start + length <= 50 and each of
\* the four directions, RoomExit::new(start, length, direction) unpacks to the same
\* start, len and direction, its end is start + length - 1, and
\* new_from_packed(exit.packed()) has the same start, len, end and direction.
C22_NewRoundTrip ==
    ParametersInRange =>
        /\ op \in {"RoomExit::new", "RoomExit::new_from_packed"} =>
              /\ RoomExit_start(ret.packed) = args.start
              /\ RoomExit_len(ret.packed) = args.length
              /\ exit_direction(ret.packed) = args.direction
              /\ RoomExit_end(ret.packed) = args.start + args.length - 1
        /\ op = "RoomExit::new_from_packed" =>
              LET exit == RoomExit_new(args.start, args.length, args.direction)
              IN  /\ RoomExit_start(ret.packed) = RoomExit_start(exit)
                  /\ RoomExit_len(ret.packed) = RoomExit_len(exit)
                  /\ RoomExit_end(ret.packed) = RoomExit_end(exit)
                  /\ exit_direction(ret.packed) = exit_direction(exit)

\* the whole edge as one exit on the bottom edge, read back from its packed word
C22_Witness ==
    /\ op = "RoomExit::new_from_packed"
    /\ FromParameters
    /\ args.start = 0 /\ args.length = 50 /\ args.direction = "Bottom"
    /\ RoomExit_start(ret.packed) = 0
    /\ RoomExit_len(ret.packed) = 50
    /\ RoomExit_end(ret.packed) = 49
    /\ exit_direction(ret.packed) = "Bottom"

\* the three direction bits of a word, as a number
DirectionBits(word) == (word \div 64) % 8

\* the six length bits of a word (bits 9..14 of 0LLLLLLDDDPPPPPP)
LengthField(word) == (word \div 512) % 64

----------------------------------------------------------------------------
(* Properties of the wildcard constructors' walk, checked under Spec *)

WildcardBuilt ==
    op \in {"WildcardRLERoomTerrain::new_from_uncompressed_terrain",
            "WildcardRLERoomTerrain::new_from_compressed_terrain"}

\* the tile the constructor that produced the current state reads at xy
WalkTile(xy) ==
    IF op = "WildcardRLERoomTerrain::new_from_uncompressed_terrain"
    THEN LocalRoomTerrain_get_xy(bits, xy)
    ELSE CompressedRoomTerrain_get_xy(compressed, xy)

\* the run sequence and the four edge lists when that constructor's walk ends
WalkEnd ==
    IF op = "WildcardRLERoomTerrain::new_from_uncompressed_terrain"
    THEN wildcard_walk_uncompressed(uncompressed_tiles(bits), EmptyWalk, 0, ROOM_AREA)
    ELSE wildcard_walk_compressed(compressed_tiles(compressed), EmptyWalk, 0, ROOM_AREA)

\* list holds the 50 tiles of an edge by edge offset, the two corners as Wall;
\* the edge runs along x at y = at, or along y at x = at
InEdgeOrder(list, along_x, at) ==
    /\ Len(list) = 50
    /\ \A i \in 0..49 :
          list[i + 1] =
              IF i = 0 \/ i = 49 THEN "Wall"
              ELSE WalkTile(IF along_x THEN [x |-> i, y |-> at] ELSE [x |-> at, y |-> i])

\* C24: in both wildcard constructors, when the walk over the 2500 positions
\* ends each of the four edge lists holds exactly 50 terrain values in edge
\* order, so new_from_terrain_slices returns Ok and the all-zero fallback edge
\* data is not used.
C24_EdgeListsComplete ==
    WildcardBuilt =>
        LET w == WalkEnd
            built == new_from_terrain_slices(w.top_edge_terrain, w.right_edge_terrain,
                                             w.bottom_edge_terrain, w.left_edge_terrain)
        IN  /\ Len(w.top_edge_terrain) = 50
            /\ Len(w.right_edge_terrain) = 50
            /\ Len(w.bottom_edge_terrain) = 50
            /\ Len(w.left_edge_terrain) = 50
            /\ InEdgeOrder(w.top_edge_terrain, TRUE, 0)
            /\ InEdgeOrder(w.right_edge_terrain, FALSE, 49)
            /\ InEdgeOrder(w.bottom_edge_terrain, TRUE, 49)
            /\ InEdgeOrder(w.left_edge_terrain, FALSE, 0)
            /\ built.tag = "Ok"
            /\ wild.edge_data = built.data

----------------------------------------------------------------------------
(* Out-of-order appends, checked under SpecRuns *)

NotAscending(starts) == \E i \in 1..(Len(starts) - 1) : starts[i] > starts[i + 1]

GenericStarts(vec) == [i \in 1..Len(vec) |-> vec[i].start]
PackedStarts(vec) == [i \in 1..Len(vec) |-> packed_start(vec[i])]

\* the packed engine's tail holds the run that is the generic engine's tail
SameTailRun ==
    /\ Len(rle) > 0 /\ Len(packed) > 0
    /\ PackedTail = RoomTerrainPackedIndexedRLE_new(GenericTail.token, GenericTail.start)

\* the candidate of the step starts below the tail run
BelowTail == Len(rle) > 0 /\ args'.start < GenericTail.start

GenericPushedOutOfOrder ==
    /\ ret'.generic = "true"
    /\ rle' = Append(rle, IndexedRLE_new(args'.token, args'.start))
    /\ NotAscending(GenericStarts(rle'))

PackedPushedOutOfOrder ==
    /\ ~ret'.panic
    /\ ret'.packed = "true"
    /\ packed' = Append(packed, RoomTerrainPackedIndexedRLE_new(args'.token, args'.start))
    /\ NotAscending(PackedStarts(packed'))

\* C25 as stated: in both engines an append whose candidate starts below the tail
\* run, with the tail's token or another, is pushed at the end and returns true,
\* and the stored starts are then not ascending.
C25_Original ==
    [][IsAppend(op') =>
          /\ BelowTail => GenericPushedOutOfOrder
          /\ (SameTailRun /\ BelowTail) => PackedPushedOutOfOrder]_vars

\* C25 (amended): the statement holds of BinarySearchRLE for every candidate, and
\* of BinarySearchPackedRoomTerrainRLE when the tail run's start is in [0, 4095].
C25_OutOfOrderIsPushed ==
    [][IsAppend(op') =>
          /\ BelowTail => GenericPushedOutOfOrder
          /\ (SameTailRun /\ BelowTail /\ GenericTail.start <= START_MASK)
                => PackedPushedOutOfOrder]_vars

\* a candidate with the tail's token and a lower start was pushed by both engines
C25_Witness ==
    /\ op = "append_run"
    /\ num_runs(rle) = 2 /\ packed_num_runs(packed) = 2
    /\ rle[1].token = rle[2].token /\ rle[1].start = START_MASK /\ rle[2].start = 1
    /\ packed_terrain(packed[1]) = packed_terrain(packed[2])
    /\ packed_start(packed[1]) = START_MASK /\ packed_start(packed[2]) = 1
    /\ args.start = 1 /\ args.token = rle[1].token
    /\ ret.generic = "true" /\ ret.packed = "true"

----------------------------------------------------------------------------
(* Run counts and the wildcard run sequence, checked under Spec *)

InteriorXY == {xy \in RoomXY : ~is_room_edge(xy)}

\* C26: the run sequence of a wildcard codec holds only runs that start at the
\* linear index of a non-edge position, its first run starts at index 51
\* (x=1, y=1), and at every non-edge position the lookup finds a run and get_xy
\* returns the source terrain of the position.
C26_WildcardInterior ==
    WildcardBuilt =>
        /\ \A i \in 1..Len(wild.data) :
              /\ packed_start(wild.data[i]) < ROOM_AREA
              /\ terrain_index_to_xy(packed_start(wild.data[i])) \in InteriorXY
        /\ Len(wild.data) > 0
        /\ packed_start(wild.data[1]) = 51
        /\ \A xy \in InteriorXY :
              /\ packed_find_token_at_index(wild.data, xy_to_terrain_index(xy)) \in Terrains
              /\ WildcardRLERoomTerrain_get_xy(wild, xy) = SourceTerrain(xy)
              /\ WildcardRLERoomTerrain_get_xy(wild, xy) = WalkTile(xy)

\* a grid of more than a thousand interior runs, a Swamp among them
C26_Witness ==
    /\ op = "WildcardRLERoomTerrain::new_from_uncompressed_terrain"
    /\ WildcardRLERoomTerrain_num_runs(wild) > 1000
    /\ packed_start(wild.data[1]) = 51
    /\ packed_start(wild.data[2]) = 52
    /\ \E xy \in InteriorXY : WildcardRLERoomTerrain_get_xy(wild, xy) = "Swamp"
    /\ \E xy \in InteriorXY : WildcardRLERoomTerrain_get_xy(wild, xy) = "Wall"

\* the terrain class of the raw grid at linear index i
ClassAt(i) == SourceTerrain(terrain_index_to_xy(i))

\* the linear indices whose class differs from the one before
ClassChanges == {i \in 1..(ROOM_AREA - 1) : ClassAt(i) # ClassAt(i - 1)}

\* C27: num_runs of the naive run codec and of the packed run codec of a grid are
\* equal, and both are 1 plus the number of linear indices in [1, 2500) whose
\* terrain class differs from that of the index before (raw 1 and 3 are both
\* Wall).
C27_NumRuns ==
    /\ RLEBuilt => num_runs(rle) = 1 + Cardinality(ClassChanges)
    /\ PackedBuilt => packed_num_runs(packed) = 1 + Cardinality(ClassChanges)
    /\ op = "memory_size" =>
          /\ num_runs(rle) = packed_num_runs(packed)
          /\ num_runs(rle) = 1 + Cardinality(ClassChanges)

\* both codecs built of a grid where raw 3 follows raw 1 somewhere (no new run
\* there) and the class changes elsewhere
C27_Witness ==
    /\ op = "memory_size"
    /\ \E i \in 1..(ROOM_AREA - 1) : bits[i] % 4 = 1 /\ bits[i - 1] % 4 = 3
    /\ Cardinality(ClassChanges) > 1000
    /\ Cardinality(ClassChanges) < ROOM_AREA - 1
    /\ num_runs(rle) = 1 + Cardinality(ClassChanges)
    /\ packed_num_runs(packed) = num_runs(rle)

\* C28: num_runs of the wildcard run codec of a grid is at most num_runs of the
\* packed run codec built from the same grid.
C28_WildcardNotMoreRuns ==
    /\ op = "WildcardRLERoomTerrain::new_from_uncompressed_terrain" =>
          WildcardRLERoomTerrain_num_runs(wild)
              <= packed_num_runs(PackedRLERoomTerrain_new_from_uncompressed_terrain(bits))
    /\ op = "WildcardRLERoomTerrain::new_from_compressed_terrain" =>
          WildcardRLERoomTerrain_num_runs(wild)
              <= packed_num_runs(PackedRLERoomTerrain_new_from_compressed_terrain(compressed))

\* a grid whose only Swamp is on the top edge: three runs packed, one with the
\* edge left out
C28_Witness ==
    /\ op = "WildcardRLERoomTerrain::new_from_uncompressed_terrain"
    /\ WildcardRLERoomTerrain_num_runs(wild) = 1
    /\ packed_num_runs(PackedRLERoomTerrain_new_from_uncompressed_terrain(bits)) = 3

----------------------------------------------------------------------------
(* The edge codec's point query against its edge decoders, checked under SpecEdge *)

\* C29: on every 24-byte edge codec get_xy and the edge decoders agree: get_xy
\* at (x, 0) is Some(get_top_edge_terrain()[x]), at (x, 49)
\* Some(get_bottom_edge_terrain()[x]), at (0, y) Some(get_left_edge_terrain()[y])
\* and at (49, y) Some(get_right_edge_terrain()[y]), for all x, y in 0..49.
C29_QueryAgreesWithDecoders ==
    edge.tag = "Ok" =>
        /\ \A x \in 0..49 :
              /\ RoomEdgeTerrain_get_xy(edge.data, [x |-> x, y |-> 0])
                    = get_top_edge_terrain(edge.data)[x]
              /\ RoomEdgeTerrain_get_xy(edge.data, [x |-> x, y |-> 49])
                    = get_bottom_edge_terrain(edge.data)[x]
        /\ \A y \in 0..49 :
              /\ RoomEdgeTerrain_get_xy(edge.data, [x |-> 0, y |-> y])
                    = get_left_edge_terrain(edge.data)[y]
              /\ RoomEdgeTerrain_get_xy(edge.data, [x |-> 49, y |-> y])
                    = get_right_edge_terrain(edge.data)[y]

\* raw bytes whose left and right chunks differ at offset 1, read both ways
C29_Witness ==
    /\ op = "RoomEdgeTerrain::new_from_raw_bytes"
    /\ edge.tag = "Ok"
    /\ get_left_edge_terrain(edge.data)[1] # get_right_edge_terrain(edge.data)[1]
    /\ RoomEdgeTerrain_get_xy(edge.data, [x |-> 0, y |-> 1]) = get_left_edge_terrain(edge.data)[1]
    /\ RoomEdgeTerrain_get_xy(edge.data, [x |-> 49, y |-> 1]) = get_right_edge_terrain(edge.data)[1]
    /\ \E x \in 1..48 : get_top_edge_terrain(edge.data)[x] = "Wall"
    /\ \E x \in 1..48 : get_top_edge_terrain(edge.data)[x] = "Plain"

----------------------------------------------------------------------------
(* What an append leaves alone, checked under SpecRuns *)

\* the step merged (false, same sequence) or pushed the candidate (true)
GenericMergedOrPushed ==
    \/ ret'.generic = "false" /\ rle' = rle
    \/ ret'.generic = "true" /\ rle' = Append(rle, IndexedRLE_new(args'.token, args'.start))

PackedMergedOrPushed ==
    \/ ret'.packed = "false" /\ packed' = packed
    \/ /\ ret'.packed = "true"
       /\ packed' = Append(packed, RoomTerrainPackedIndexedRLE_new(args'.token, args'.start))

\* the stored starts are ascending and the candidate of the step is not below them
GenericAscendingAppend ==
    /\ ~NotAscending(GenericStarts(rle))
    /\ AtOrAfterAll(rle, args'.start)

PackedAscendingAppend ==
    /\ ~NotAscending(PackedStarts(packed))
    /\ \A i \in 1..Len(packed) : args'.start >= packed_start(packed[i])

\* the lookups below the candidate's start answer as before the step
GenericFindUnchanged ==
    \A i \in QueryIndices :
        i < args'.start => find_token_at_index(rle', i) = find_token_at_index(rle, i)

PackedFindUnchanged ==
    \A i \in QueryIndices :
        i < args'.start =>
            packed_find_token_at_index(packed', i) = packed_find_token_at_index(packed, i)

\* C30 as stated: in both engines an append leaves the stored sequence as it was
\* and returns false, or adds the candidate at the end and returns true; and when
\* starts are appended in ascending order, find_token_at_index(i) is the same
\* before and after the append for every i below the candidate's start.
C30_Original ==
    [][IsAppend(op') =>
          /\ GenericMergedOrPushed
          /\ GenericAscendingAppend => GenericFindUnchanged
          /\ PackedMergedOrPushed
          /\ PackedAscendingAppend => PackedFindUnchanged]_vars

\* the candidate's start is in [0, 4095] and every stored word carries a terrain tag
PackedInRange ==
    /\ args'.start <= START_MASK
    /\ \A i \in 1..Len(packed) : ~terrain_panics(packed[i])

\* C30 (amended): the statement holds of BinarySearchRLE for every candidate, and
\* of BinarySearchPackedRoomTerrainRLE for every candidate whose start is in
\* [0, 4095] appended to a sequence whose stored words all carry a terrain tag.
C30_AppendKeepsStoredRuns ==
    [][IsAppend(op') =>
          /\ GenericMergedOrPushed
          /\ GenericAscendingAppend => GenericFindUnchanged
          /\ PackedInRange => PackedMergedOrPushed
          /\ (PackedInRange /\ PackedAscendingAppend) => PackedFindUnchanged]_vars

\* a second run pushed after the first, in ascending order: the lookups below its
\* start answer as they did on the first run alone
C30_Witness ==
    /\ op = "append_token"
    /\ ret.generic = "true" /\ ret.packed = "true"
    /\ num_runs(rle) = 2 /\ packed_num_runs(packed) = 2
    /\ rle[1].start = 1 /\ rle[2].start = START_MASK /\ args.start = START_MASK
    /\ rle[1].token # rle[2].token
    /\ find_token_at_index(rle, 2) = rle[1].token
    /\ find_token_at_index(SubSeq(rle, 1, 1), 2) = rle[1].token
    /\ packed_find_token_at_index(packed, 2) = packed_find_token_at_index(SubSeq(packed, 1, 1), 2)
    /\ find_token_at_index(rle, 0) = None

====
